---- MODULE Spec2Model ----
(***************************************************************************)
(* A model of the shandu research agent:                                   *)
(*   - CitationRegistry   (agents/utils/citation_registry.py)              *)
(*   - CitationManager    (agents/utils/citation_manager.py)               *)
(*   - SearchCache / ScraperCache and their callers                        *)
(*                        (search/search.py, scraper/scraper.py)           *)
(*   - WebScraper and RobotsChecker: scrape_url, scrape_urls and the       *)
(*     class-wide semaphore (scraper/scraper.py)                           *)
(*   - the research controller: the graph of agents/graph/builder.py, its  *)
(*     nodes (agents/nodes/*.py) and guard (agents/utils/agent_utils.py)   *)
(* Python strings are sequences of one-character strings; Python dicts     *)
(* whose iteration order the code depends on are insertion-ordered         *)
(* sequences of [key, val] entries.                                        *)
(***************************************************************************)
EXTENDS Integers, Sequences, FiniteSets, TLC

VARIABLES
    registry,    \* the CitationRegistry object (its five fields)
    manager,     \* the CitationManager object (sources, learnings, ...)
    calls,       \* number of API calls made so far on registry/manager
    last,        \* the last call made: its name, arguments and return value
    firstId,     \* history: url -> the id its first registration returned
    regOrder,    \* history: the distinct URLs in order of first registration
    clock,       \* the clock read by time.time(), in ticks
    searchCache, \* SearchCache's files: <<query, engine>> -> [timestamp, results]
    scraperCache,\* ScraperCache's files: url -> [timestamp, content]
    robots,      \* RobotsChecker: [parsers, last_checked], both keyed by domain
    prevScrape,  \* history: url -> how the latest scrape_url of it ended
    written,     \* history: cache key -> when and what the latest write was
    node,        \* the research graph: the node about to run, or how the run ended
    agentState,  \* the AgentState dict of the run
    shutdown,    \* agent_utils' globals: _shutdown_requested, _shutdown_counter
    run,         \* history: the run's environment, its search passes, its last guard
    semaphore,   \* the class attribute WebScraper._semaphore
    scrapers,    \* the WebScraper instances made so far
    batches,     \* the scrape_urls calls made so far, with their tasks
    files,       \* the file system: path -> the document stored there
    searchPass   \* search_node at the grain of its sub-query tasks

ledgerVars == <<registry, manager, firstId, regOrder, files>>
cacheVars == <<clock, searchCache, scraperCache, robots, prevScrape, written>>
agentVars == <<node, agentState, shutdown, run, searchPass>>
poolVars == <<semaphore, scrapers, batches>>
vars == <<registry, manager, calls, last, firstId, regOrder,
          clock, searchCache, scraperCache, robots, prevScrape, written,
          node, agentState, shutdown, run, semaphore, scrapers, batches, files, searchPass>>

\* ----------------------------------------------------------------- bounds
MaxCalls == 3
MaxChunks == 3      \* a validated text is made of at most this many chunks
MaxTime == 4        \* the clock stops ticking here
SearchTtl == 2      \* SearchCache(ttl=...), in ticks
ScraperTtl == 2     \* ScraperCache(ttl=...), in ticks
RobotsTtl == 1      \* RobotsChecker(cache_ttl=...), in ticks
MaxResults == 3     \* UnifiedSearcher(max_results=...)
MaxMergeLen == 3    \* merge_results is tried on lists of at most this length
MaxScrapers == 2    \* WebScraper instances made in a behaviour
MaxBatches == 2     \* scrape_urls calls made in a behaviour
MaxBatchLen == 3    \* URLs handed to one scrape_urls call

\* ------------------------------------------------------- generic helpers
\* the concatenation of a sequence of sequences
RECURSIVE Flatten(_)
Flatten(ss) == IF ss = <<>> THEN <<>> ELSE Head(ss) \o Flatten(Tail(ss))
Range(s) == {s[i] : i \in 1..Len(s)}

RECURSIVE Rep(_, _)
Rep(s, n) == IF n = 0 THEN <<>> ELSE s \o Rep(s, n - 1)

\* Python t.startswith(s)
IsPrefix(s, t) == Len(s) <= Len(t) /\ \A i \in 1..Len(s) : s[i] = t[i]

\* Python `x in list`
InList(x, s) == \E i \in 1..Len(s) : s[i] = x

\* Python `needle in haystack` for strings
IsSubstr(needle, hay) ==
    \E i \in 0..(Len(hay) - Len(needle)) :
        \A j \in 1..Len(needle) : hay[i + j] = needle[j]

\* Insertion-ordered dict: d[k] = v keeps the position of an existing key.
DictHas(d, k) == \E i \in 1..Len(d) : d[i].key = k
DictIdx(d, k) == CHOOSE i \in 1..Len(d) : d[i].key = k
DictGet(d, k) == d[DictIdx(d, k)].val
DictSet(d, k, v) ==
    IF DictHas(d, k)
    THEN [d EXCEPT ![DictIdx(d, k)] = [key |-> k, val |-> v]]
    ELSE Append(d, [key |-> k, val |-> v])
DictKeys(d) == {d[i].key : i \in 1..Len(d)}

\* ------------------------------------------------------ CitationRegistry
URLS == {"u1", "u2", "u3"}
CONTEXTS == {"", "c1", "c2"}

\* CitationRegistry.__init__
RegistryInit ==
    [citations         |-> <<>>,
     id_to_url         |-> <<>>,
     url_to_id         |-> <<>>,
     next_id           |-> 1,
     citation_contexts |-> <<>>]

\* self.citation_contexts.get(citation_id, [])
get_citation_contexts(reg, cid) ==
    IF cid \in DOMAIN reg.citation_contexts THEN reg.citation_contexts[cid] ELSE <<>>

\* A faulty register_new: it advances next_id by two.
register_new_skip(reg, source_url, context) ==
    LET citation_id == reg.next_id IN
    [reg  |-> [citations |-> (citation_id :> [url |-> source_url, id |-> citation_id])
                                @@ reg.citations,
               id_to_url |-> (citation_id :> source_url) @@ reg.id_to_url,
               url_to_id |-> (source_url :> citation_id) @@ reg.url_to_id,
               next_id   |-> reg.next_id + 2,
               citation_contexts |-> reg.citation_contexts],
     ret  |-> citation_id]

\* The branch of register_citation taken for a URL never seen before.
register_new(reg, source_url, context) ==
    LET citation_id == reg.next_id IN
    [reg  |-> [citations |-> (citation_id :> [url |-> source_url, id |-> citation_id])
                                @@ reg.citations,
               id_to_url |-> (citation_id :> source_url) @@ reg.id_to_url,
               url_to_id |-> (source_url :> citation_id) @@ reg.url_to_id,
               next_id   |-> reg.next_id + 1,
               citation_contexts |->
                   IF context # ""
                   THEN (citation_id :> <<context>>) @@ reg.citation_contexts
                   ELSE reg.citation_contexts],
     ret  |-> citation_id]

\* The branch of register_citation taken for an already registered URL.
register_existing(reg, source_url, context) ==
    LET citation_id == reg.url_to_id[source_url] IN
    [reg |-> IF context # "" /\ ~InList(context, get_citation_contexts(reg, citation_id))
             THEN [reg EXCEPT !.citation_contexts =
                      (citation_id :> Append(get_citation_contexts(reg, citation_id), context))
                          @@ reg.citation_contexts]
             ELSE reg,
     ret |-> citation_id]

\* A faulty register_citation: it forgets the url_to_id lookup.
register_citation_nolookup(reg, source_url, context) ==
    register_new(reg, source_url, context)

\* CitationRegistry.register_citation: returns the new registry and the id.
register_citation(reg, source_url, context) ==
    IF source_url \in DOMAIN reg.url_to_id
    THEN register_existing(reg, source_url, context)
    ELSE register_new(reg, source_url, context)

\* CitationRegistry.bulk_register_sources
RECURSIVE bulk_register_sources(_, _)
bulk_register_sources(reg, source_urls) ==
    IF source_urls = <<>> THEN reg
    ELSE LET url == Head(source_urls) IN
         bulk_register_sources(
             IF url \notin DOMAIN reg.url_to_id
             THEN register_citation(reg, url, "").reg
             ELSE reg,
             Tail(source_urls))

\* CitationRegistry.update_citation_metadata: dict.update on the record of a
\* known id, every key of metadata replacing the one the record holds; an
\* unknown id is left alone.
update_citation_metadata(reg, citation_id, metadata) ==
    IF citation_id \in DOMAIN reg.citations
    THEN [reg EXCEPT !.citations[citation_id] = metadata @@ reg.citations[citation_id]]
    ELSE reg

\* CitationRegistry.get_all_citation_urls: ids ascending
RECURSIVE SortedSeq(_)
SortedSeq(S) ==
    IF S = {} THEN <<>>
    ELSE LET m == CHOOSE x \in S : \A y \in S : x <= y
         IN <<m>> \o SortedSeq(S \ {m})

get_all_citation_urls(reg) ==
    LET ids == SortedSeq(DOMAIN reg.id_to_url)
    IN [i \in 1..Len(ids) |-> reg.id_to_url[ids[i]]]

\* ---------------------------------- CitationRegistry.validate_citations
DIGITS == {"0", "1", "2", "3", "4", "5", "6", "7", "8", "9"}
DigitVal(c) ==
    CASE c = "0" -> 0 [] c = "1" -> 1 [] c = "2" -> 2 [] c = "3" -> 3 [] c = "4" -> 4
      [] c = "5" -> 5 [] c = "6" -> 6 [] c = "7" -> 7 [] c = "8" -> 8 [] c = "9" -> 9

\* int(cid) for a string of digits
RECURSIVE ToInt(_)
ToInt(ds) ==
    IF ds = <<>> THEN 0
    ELSE 10 * ToInt(SubSeq(ds, 1, Len(ds) - 1)) + DigitVal(ds[Len(ds)])

\* The end of the longest run of digits that starts at position i (i - 1 if none).
RECURSIVE DigitRunEnd(_, _)
DigitRunEnd(text, i) ==
    IF i <= Len(text) /\ text[i] \in DIGITS THEN DigitRunEnd(text, i + 1) ELSE i - 1

\* re.compile(r'\[(\d+)\]').findall(text) from position i on: the groups of
\* the non-overlapping matches, scanning left to right.
RECURSIVE FindAllFrom(_, _)
FindAllFrom(text, i) ==
    IF i > Len(text) THEN <<>>
    ELSE IF text[i] = "["
         THEN LET e == DigitRunEnd(text, i + 1) IN
              IF e >= i + 1 /\ e + 1 <= Len(text) /\ text[e + 1] = "]"
              THEN <<SubSeq(text, i + 1, e)>> \o FindAllFrom(text, e + 2)
              ELSE FindAllFrom(text, i + 1)
         ELSE FindAllFrom(text, i + 1)

SetMax(S) == CHOOSE x \in S : \A y \in S : x >= y

\* A faulty validate_citations: out-of-range is tested with >= max_id.
validate_citations_ge(reg, text) ==
    LET found == FindAllFrom(text, 1)
        used_citations == {ToInt(found[k]) : k \in 1..Len(found)}
        registry_ids == DOMAIN reg.citations
        max_id == IF registry_ids # {} THEN SetMax(registry_ids) ELSE 0
        out_of_range_citations == {cid \in used_citations : cid >= max_id}
        invalid_citations == (used_citations \ registry_ids) \cup out_of_range_citations
    IN [valid                  |-> Cardinality(invalid_citations) = 0,
        invalid_citations      |-> invalid_citations,
        missing_citations      |-> registry_ids \ used_citations,
        used_citations         |-> used_citations,
        out_of_range_citations |-> out_of_range_citations,
        max_valid_id           |-> max_id]

\* CitationRegistry.validate_citations
validate_citations(reg, text) ==
    LET found == FindAllFrom(text, 1)
        used_citations == {ToInt(found[k]) : k \in 1..Len(found)}
        registry_ids == DOMAIN reg.citations
        invalid0 == used_citations \ registry_ids
        missing_citations == registry_ids \ used_citations
        max_id == IF registry_ids # {} THEN SetMax(registry_ids) ELSE 0
        out_of_range_citations == {cid \in used_citations : cid > max_id}
        invalid_citations == invalid0 \cup out_of_range_citations
    IN [valid                  |-> Cardinality(invalid_citations) = 0,
        invalid_citations      |-> invalid_citations,
        missing_citations      |-> missing_citations,
        used_citations         |-> used_citations,
        out_of_range_citations |-> out_of_range_citations,
        max_valid_id           |-> max_id]

\* ------------------------------------------------------- CitationManager
\* Characters of the modelled texts.
WHITESPACE == {" ", "\n", "\t"}
PUNCTUATION == {",", ".", ";", ":", "!", "?", "\"", "'"}

\* str.lower() on the alphabet used here
Lower(c) ==
    CASE c = "A" -> "a" [] c = "B" -> "b" [] c = "C" -> "c"
      [] c = "X" -> "x" [] c = "Y" -> "y" [] c = "H" -> "h" [] c = "Q" -> "q"
      [] OTHER -> c

\* re.sub(r'\s+', ' ', text)
RECURSIVE CollapseWs(_)
CollapseWs(t) ==
    IF t = <<>> THEN <<>>
    ELSE IF Head(t) \in WHITESPACE
         THEN IF Len(t) > 1 /\ t[2] \in WHITESPACE
              THEN CollapseWs(Tail(t))
              ELSE <<" ">> \o CollapseWs(Tail(t))
         ELSE <<Head(t)>> \o CollapseWs(Tail(t))

\* str.strip()
RECURSIVE LStrip(_)
LStrip(t) == IF t # <<>> /\ Head(t) \in WHITESPACE THEN LStrip(Tail(t)) ELSE t
RECURSIVE RStrip(_)
RStrip(t) ==
    IF t # <<>> /\ t[Len(t)] \in WHITESPACE THEN RStrip(SubSeq(t, 1, Len(t) - 1)) ELSE t
Strip(t) == RStrip(LStrip(t))

\* re.sub(r'[,.;:!?"\']', '', text)
RemovePunct(t) == SelectSeq(t, LAMBDA c : c \notin PUNCTUATION)

\* CitationManager._normalize_text
normalize_text(text) ==
    LET t1 == Strip(CollapseWs(text))
        t2 == [i \in 1..Len(t1) |-> Lower(t1[i])]
    IN RemovePunct(t2)

\* The fuzzy-match threshold 0.8 of _find_similar_learning, as a fraction.
SimThresholdNum == 8
SimThresholdDen == 10
\* extract_learning_from_text skips paragraphs shorter than this.
MinParagraphLen == 20

\* CitationManager._calculate_similarity: character-set Jaccard similarity,
\* returned as the fraction <<numerator, denominator>>.
calculate_similarity(text1, text2) ==
    IF text1 = <<>> \/ text2 = <<>> THEN <<0, 1>>
    ELSE LET set1 == Range(text1)
             set2 == Range(text2)
             intersection == Cardinality(set1 \cap set2)
             union == Cardinality(set1 \cup set2)
         IN IF union > 0 THEN <<intersection, union>> ELSE <<0, 1>>

\* similarity > 0.8
AboveThreshold(sim) == sim[1] * SimThresholdDen > SimThresholdNum * sim[2]

\* Optional[str] None / the empty string: both falsy in `if existing_hash:`
None == <<>>

\* A faulty _find_similar_learning: the fuzzy pass is missing.
find_similar_learning_exact_only(learnings, content) ==
    LET normalized == normalize_text(content)
        exact == {i \in 1..Len(learnings) :
                     normalize_text(learnings[i].val.content) = normalized}
    IN IF exact # {}
       THEN learnings[CHOOSE i \in exact : \A j \in exact : i <= j].key
       ELSE None

\* CitationManager._find_similar_learning: the first exact match on
\* normalized content in dict order, else the first fuzzy match, else None.
find_similar_learning(learnings, content) ==
    LET normalized == normalize_text(content)
        exact == {i \in 1..Len(learnings) :
                     normalize_text(learnings[i].val.content) = normalized}
        fuzzy == {i \in 1..Len(learnings) :
                     AboveThreshold(calculate_similarity(
                         normalized, normalize_text(learnings[i].val.content)))}
    IN IF exact # {}
       THEN learnings[CHOOSE i \in exact : \A j \in exact : i <= j].key
       ELSE IF fuzzy # {}
            THEN learnings[CHOOSE i \in fuzzy : \A j \in fuzzy : i <= j].key
            ELSE None

\* hashlib.md5(content).hexdigest(): an injective digest of the content
Md5(content) == <<"md5:">> \o content

\* Learning(...) with __post_init__: an empty hash_id becomes the md5 digest.
Learning(content, srcs, confidence, category, context, source_quotes, hash_id) ==
    [content       |-> content,
     sources       |-> srcs,
     confidence    |-> confidence,
     category      |-> category,
     context       |-> context,
     source_quotes |-> source_quotes,
     hash_id       |-> IF hash_id = <<>> THEN Md5(content) ELSE hash_id]

\* SourceInfo(url, title, access_time): extracted_content takes its default.
\* The other fields (snippet, source_type, content_type, domain,
\* reliability_score, metadata) are handled like title wherever the model
\* reads or copies a source, and are left out.
SourceInfo(url, title, access_time) ==
    [url |-> url, title |-> title, access_time |-> access_time,
     extracted_content |-> ""]

\* CitationManager.__init__ (the registry it owns is the variable registry)
ManagerInit ==
    [sources             |-> <<>>,
     learnings           |-> <<>>,
     source_to_learnings |-> <<>>,
     learning_categories |-> {}]

\* Readings of time.time() seen by add_source.
ClockReadings == {1}

\* A faulty add_source: it keeps the sources as a list and appends to it.
add_source_append(mgr, source_info, now) ==
    [mgr EXCEPT
       !.source_to_learnings = (source_info.url :> <<>>) @@ mgr.source_to_learnings,
       !.sources = Append(mgr.sources, [key |-> source_info.url, val |-> source_info])]

\* CitationManager.add_source; now is the reading of time.time()
add_source(mgr, source_info, now) ==
    LET url == source_info.url
        isNew == ~DictHas(mgr.sources, url)
        stored == IF isNew /\ source_info.access_time = 0
                  THEN [source_info EXCEPT !.access_time = now]
                  ELSE source_info
    IN [mgr EXCEPT
          !.source_to_learnings =
              IF isNew THEN (url :> <<>>) @@ mgr.source_to_learnings
              ELSE mgr.source_to_learnings,
          !.sources = DictSet(mgr.sources, url, stored)]

\* Confidence values are exact fractions <<numerator, denominator>>.
RECURSIVE Gcd(_, _)
Gcd(a, b) == IF b = 0 THEN a ELSE Gcd(b, a % b)
Frac(n, d) == LET g == Gcd(n, d) IN IF g = 0 THEN <<0, 1>> ELSE <<n \div g, d \div g>>
One == <<1, 1>>
Half == <<1, 2>>
Zero == <<0, 1>>
\* (existing.confidence + learning.confidence) / 2
MeanConfidence(a, b) == Frac(a[1] * b[2] + b[1] * a[2], 2 * a[2] * b[2])

\* add_learning, merge branch, lines 99-105: the loop over learning.sources.
\* st = [srcs: existing.sources, s2l: source_to_learnings]
RECURSIVE MergeSources(_, _, _)
MergeSources(st, source_urls, existing_hash) ==
    IF source_urls = <<>> THEN st
    ELSE LET source_url == Head(source_urls)
             st1 == IF ~InList(source_url, st.srcs)
                    THEN [srcs |-> Append(st.srcs, source_url),
                          s2l  |-> IF source_url \in DOMAIN st.s2l
                                      /\ ~InList(existing_hash, st.s2l[source_url])
                                   THEN [st.s2l EXCEPT ![source_url] = Append(@, existing_hash)]
                                   ELSE st.s2l]
                    ELSE st
         IN MergeSources(st1, Tail(source_urls), existing_hash)

\* add_learning, merge branch, lines 121-123: the loop over source_quotes.
RECURSIVE MergeQuotes(_, _)
MergeQuotes(quotes, incoming) ==
    IF incoming = <<>> THEN quotes
    ELSE MergeQuotes(IF InList(Head(incoming), quotes) THEN quotes
                     ELSE Append(quotes, Head(incoming)),
                     Tail(incoming))

\* add_learning, lines 95-125: merge the incoming learning into the entry
\* stored under existing_hash.
merge_learning(mgr, learning, existing_hash, now) ==
    LET existing == DictGet(mgr.learnings, existing_hash)
        st == MergeSources([srcs |-> existing.sources, s2l |-> mgr.source_to_learnings],
                           learning.sources, existing_hash)
        takeCategory == learning.category # "" /\ existing.category = ""
        merged ==
            [existing EXCEPT
               !.sources = st.srcs,
               !.confidence = IF learning.confidence # One
                              THEN MeanConfidence(existing.confidence, learning.confidence)
                              ELSE existing.confidence,
               !.category = IF takeCategory THEN learning.category ELSE existing.category,
               !.context = IF learning.context # <<>>
                              /\ ~IsSubstr(learning.context, existing.context)
                           THEN IF existing.context # <<>>
                                THEN existing.context \o <<" ">> \o learning.context
                                ELSE learning.context
                           ELSE existing.context,
               !.source_quotes = MergeQuotes(existing.source_quotes, learning.source_quotes)]
    IN [mgr |-> [mgr EXCEPT
                   !.learnings = DictSet(mgr.learnings, existing_hash, merged),
                   !.source_to_learnings = st.s2l,
                   !.learning_categories =
                       IF takeCategory THEN @ \cup {learning.category} ELSE @],
        ret |-> existing_hash]

\* add_learning, lines 130-136: the loop over the sources of a new learning.
RECURSIVE LinkSources(_, _, _, _)
LinkSources(mgr, source_urls, hash_id, now) ==
    IF source_urls = <<>> THEN mgr
    ELSE LET source_url == Head(source_urls)
             s2l0 == IF source_url \notin DOMAIN mgr.source_to_learnings
                     THEN (source_url :> <<>>) @@ mgr.source_to_learnings
                     ELSE mgr.source_to_learnings
             m1 == [mgr EXCEPT !.source_to_learnings =
                        [s2l0 EXCEPT ![source_url] = Append(@, hash_id)]]
             m2 == IF ~DictHas(m1.sources, source_url)
                   THEN add_source(m1, SourceInfo(source_url, "", 0), now)
                   ELSE m1
         IN LinkSources(m2, Tail(source_urls), hash_id, now)

\* add_learning, lines 127-142: store the learning under its own hash_id.
store_learning(mgr, learning, now) ==
    LET hash_id == learning.hash_id
        m0 == [mgr EXCEPT !.learnings = DictSet(mgr.learnings, hash_id, learning)]
        m1 == LinkSources(m0, learning.sources, hash_id, now)
    IN [mgr |-> [m1 EXCEPT !.learning_categories =
                     IF learning.category # "" THEN @ \cup {learning.category} ELSE @],
        ret |-> hash_id]

\* A faulty add_learning: it never looks for a similar learning.
add_learning_always_store(mgr, learning, now) == store_learning(mgr, learning, now)

\* CitationManager.add_learning: returns the new manager and the hash id.
add_learning(mgr, learning, now) ==
    LET existing_hash == find_similar_learning(mgr.learnings, learning.content)
    IN IF existing_hash # None
       THEN merge_learning(mgr, learning, existing_hash, now)
       ELSE store_learning(mgr, learning, now)

\* re.split(r'\n\s*\n', text): the leftmost match starts at the first "\n"
\* that is followed, after whitespace only, by another "\n"; being greedy it
\* ends at the last such "\n" of that whitespace run.
MatchEnds(text, i) ==
    {j \in (i + 1)..Len(text) :
        text[j] = "\n" /\ \A k \in (i + 1)..(j - 1) : text[k] \in WHITESPACE}
MatchStarts(text) ==
    {i \in 1..Len(text) : text[i] = "\n" /\ MatchEnds(text, i) # {}}
RECURSIVE SplitParagraphs(_)
SplitParagraphs(text) ==
    IF MatchStarts(text) = {} THEN <<text>>
    ELSE LET i == CHOOSE x \in MatchStarts(text) : \A y \in MatchStarts(text) : x <= y
             j == CHOOSE x \in MatchEnds(text, i) : \A y \in MatchEnds(text, i) : x >= y
         IN <<SubSeq(text, 1, i - 1)>> \o SplitParagraphs(SubSeq(text, j + 1, Len(text)))

\* extract_learning_from_text, the loop over the paragraphs.
RECURSIVE ExtractLoop(_, _, _, _, _, _)
ExtractLoop(mgr, paragraphs, source_url, context, hashes, now) ==
    IF paragraphs = <<>> THEN [mgr |-> mgr, ret |-> hashes]
    ELSE LET p == Strip(Head(paragraphs))
         IN IF Len(p) < MinParagraphLen
            THEN ExtractLoop(mgr, Tail(paragraphs), source_url, context, hashes, now)
            ELSE LET r == add_learning(mgr,
                              Learning(p, <<source_url>>, One, "", context, <<p>>, <<>>),
                              now)
                 IN ExtractLoop(r.mgr, Tail(paragraphs), source_url, context,
                                Append(hashes, r.ret), now)

\* CitationManager.extract_learning_from_text
extract_learning_from_text(mgr, text, source_url, context, now) ==
    ExtractLoop(mgr, SplitParagraphs(text), source_url, context, <<>>, now)

\* get_learning_statistics()["total_learnings"]
total_learnings(mgr) == Len(mgr.learnings)

\* ----------------------------------------------- export_to_json / import
\* dict.get(key, default) on a JSON object
Get(d, key, default) == IF key \in DOMAIN d THEN d[key] ELSE default

\* list(a_set): the elements in some order
RECURSIVE ListOf(_)
ListOf(S) == IF S = {} THEN <<>> ELSE LET x == CHOOSE y \in S : TRUE
                                      IN <<x>> \o ListOf(S \ {x})

\* CitationManager._source_to_dict
source_to_dict(source) ==
    [url |-> source.url, title |-> source.title, access_time |-> source.access_time]

\* CitationManager._dict_to_source, called on a dict that has "url"
dict_to_source(source_dict) ==
    SourceInfo(source_dict.url, Get(source_dict, "title", ""),
               Get(source_dict, "access_time", 0))

\* CitationManager._learning_to_dict
learning_to_dict(learning) ==
    [content       |-> learning.content,
     sources       |-> learning.sources,
     confidence    |-> learning.confidence,
     category      |-> learning.category,
     context       |-> learning.context,
     source_quotes |-> learning.source_quotes,
     hash_id       |-> learning.hash_id]

\* CitationManager._dict_to_learning, called on a dict that has "content"
dict_to_learning(learning_dict) ==
    Learning(learning_dict.content,
             Get(learning_dict, "sources", <<>>),
             Get(learning_dict, "confidence", One),
             Get(learning_dict, "category", ""),
             Get(learning_dict, "context", <<>>),
             Get(learning_dict, "source_quotes", <<>>),
             Get(learning_dict, "hash_id", <<>>))

\* The contents of a file: a JSON object, a JSON value of another type, or
\* text that is not JSON.  A path with no file cannot be opened for reading.
JsonObject(data) == [kind |-> "object", data |-> data]
JsonArray == [kind |-> "array", data |-> <<>>]
NotJson == [kind |-> "text", data |-> <<>>]

\* open(path, 'w') succeeds in an existing directory only.
PATHS == {"out.json", "nodir/out.json"}
Writable(path) == path = "out.json"

\* {k: f(v) for k, v in d.items()}
MapValues(d, f(_)) == [i \in 1..Len(d) |-> [key |-> d[i].key, val |-> f(d[i].val)]]

\* export_to_json, lines 430-436: the document written
export_data(mgr, now) ==
    [sources             |-> MapValues(mgr.sources, source_to_dict),
     learnings           |-> MapValues(mgr.learnings, learning_to_dict),
     source_to_learnings |-> mgr.source_to_learnings,
     learning_categories |-> ListOf(mgr.learning_categories),
     export_time         |-> now]

\* CitationManager.export_to_json: the file system after it and what it returns
export_to_json(mgr, fs, path, now) ==
    IF Writable(path)
    THEN [files |-> (path :> JsonObject(export_data(mgr, now))) @@ fs, ret |-> TRUE]
    ELSE [files |-> fs, ret |-> FALSE]

\* import_from_json, lines 465-469: one of the two loops over the items of a
\* parsed JSON object (its keys are distinct); required is the key the
\* converter reads with [], whose absence raises KeyError. items are the
\* entries converted before the loop ended.
ImportLoop(entries, required) ==
    LET bad == {i \in 1..Len(entries) : required \notin DOMAIN entries[i].val}
        n == IF bad = {} THEN Len(entries)
             ELSE (CHOOSE i \in bad : \A j \in bad : i <= j) - 1
    IN [raised |-> bad # {}, items |-> SubSeq(entries, 1, n)]

\* import_from_json, lines 459-478, once json.load has returned a value
import_data(mgr, file) ==
    LET cleared == [mgr EXCEPT !.sources = <<>>, !.learnings = <<>>,
                               !.source_to_learnings = <<>>,
                               !.learning_categories = {}]
        data == file.data
        srcs == ImportLoop(Get(data, "sources", <<>>), "url")
        m1 == [cleared EXCEPT !.sources = MapValues(srcs.items, dict_to_source)]
        lrns == ImportLoop(Get(data, "learnings", <<>>), "content")
        m2 == [m1 EXCEPT !.learnings = MapValues(lrns.items, dict_to_learning)]
    IN IF file.kind # "object" THEN [mgr |-> cleared, ret |-> FALSE]
       ELSE IF srcs.raised THEN [mgr |-> m1, ret |-> FALSE]
       ELSE IF lrns.raised THEN [mgr |-> m2, ret |-> FALSE]
       ELSE [mgr |-> [m2 EXCEPT
                        !.source_to_learnings = Get(data, "source_to_learnings", <<>>),
                        !.learning_categories =
                            Range(Get(data, "learning_categories", <<>>))],
             ret |-> TRUE]

\* CitationManager.import_from_json: the ledger after it and what it returns
import_from_json(mgr, fs, path) ==
    IF path \notin DOMAIN fs \/ fs[path].kind = "text"
    THEN [mgr |-> mgr, ret |-> FALSE]
    ELSE import_data(mgr, fs[path])

\* ------------------------------- get_citations_for_report / bibliography
\* str(n) for n >= 0, as characters
RECURSIVE IntDigits(_)
IntDigits(n) ==
    LET d == <<"0", "1", "2", "3", "4", "5", "6", "7", "8", "9">>[(n % 10) + 1]
    IN IF n < 10 THEN <<d>> ELSE Append(IntDigits(n \div 10), d)

\* The characters of the modelled source URLs.
UrlText(url) ==
    CASE url = "u1" -> <<"u", "1">> [] url = "u2" -> <<"u", "2">>
      [] url = "u3" -> <<"u", "3">> [] OTHER -> <<>>

\* f"citation-{cid}" and f"unknown-source-{cid}"
CitationKey(cid) == "citation-" \o ToString(cid)
UnknownSourceUrl(cid) == "unknown-source-" \o ToString(cid)
\* time.strftime("%Y-%m-%d", time.localtime(access_time))
DateOf(access_time) == "day-" \o ToString(access_time)

\* get_citations_for_report, lines 289-294: the first source whose URL
\* contains str(cid); 0 when there is none.
MatchingSource(mgr, cid) ==
    LET hits == {i \in 1..Len(mgr.sources) :
                    IsSubstr(IntDigits(cid), UrlText(mgr.sources[i].val.url))}
    IN IF hits = {} THEN 0 ELSE CHOOSE i \in hits : \A j \in hits : i <= j

\* get_citations_for_report, lines 296-314: the entry built for one id.
BibliographyEntry(mgr, cid) ==
    LET i == MatchingSource(mgr, cid)
        source_info == mgr.sources[i].val
    IN IF i # 0
       THEN [id |-> cid,
             url |-> source_info.url,
             title |-> IF source_info.title # "" THEN source_info.title
                       ELSE "Unknown Title",
             source_type |-> "web",
             accessed |-> IF source_info.access_time # 0
                          THEN DateOf(source_info.access_time) ELSE "Unknown Date"]
       ELSE [id |-> cid,
             url |-> UnknownSourceUrl(cid),
             title |-> "Unknown Source",
             source_type |-> "unknown",
             accessed |-> "Unknown Date"]

\* get_citations_for_report, line 286, over the sorted ids
RECURSIVE RegisterCited(_, _)
RegisterCited(reg, cids) ==
    IF cids = <<>> THEN reg
    ELSE RegisterCited(register_citation(reg, CitationKey(Head(cids)), "").reg, Tail(cids))

\* CitationManager.get_citations_for_report: the registry after it, the
\* processed text and the bibliography entries.
get_citations_for_report(mgr, reg, report_text) ==
    LET found == FindAllFrom(report_text, 1)
        cids == SortedSeq({ToInt(found[k]) : k \in 1..Len(found)})
    IN [reg |-> RegisterCited(reg, cids),
        text |-> report_text,
        bibliography |-> [i \in 1..Len(cids) |-> BibliographyEntry(mgr, cids[i])]]

\* entry.get(key) is truthy
Truthy(entry, key) == key \in DOMAIN entry /\ entry[key] # ""

\* sorted(entries, key=lambda e: e["id"]): a stable sort
RECURSIVE SortById(_)
SortById(entries) ==
    IF entries = <<>> THEN <<>>
    ELSE LET ids == {entries[i].id : i \in 1..Len(entries)}
             least == CHOOSE x \in ids : \A y \in ids : x <= y
             i == CHOOSE k \in 1..Len(entries) :
                     entries[k].id = least /\ \A j \in 1..(k - 1) : entries[j].id # least
         IN <<entries[i]>> \o SortById(SubSeq(entries, 1, i - 1)
                                         \o SubSeq(entries, i + 1, Len(entries)))

\* format_bibliography, lines 337-361: the text of one entry, as pieces
format_entry(entry, style) ==
    IF style = "apa"
    THEN <<"[", ToString(entry.id), "] ">>
         \o (IF Truthy(entry, "title") THEN <<entry.title, ". ">> ELSE <<>>)
         \o (IF Truthy(entry, "url") THEN <<"Retrieved from ", entry.url, " ">> ELSE <<>>)
         \o (IF Truthy(entry, "accessed") THEN <<"on ", entry.accessed, ".">> ELSE <<>>)
         \o <<"\n\n">>
    ELSE IF style = "mla"
    THEN <<"[", ToString(entry.id), "] ">>
         \o (IF Truthy(entry, "title") THEN <<"\"", entry.title, ".\" ">> ELSE <<>>)
         \o (IF Truthy(entry, "url") THEN <<entry.url, ", ">> ELSE <<>>)
         \o (IF Truthy(entry, "accessed") THEN <<"accessed ", entry.accessed, ".">> ELSE <<>>)
         \o <<"\n\n">>
    ELSE <<"[", ToString(entry.id), "] ", Get(entry, "title", "Unknown Title"), ". ",
           Get(entry, "url", "No URL"), ".", "\n\n">>

\* CitationManager.format_bibliography: the text as a sequence of pieces, or
\* the KeyError that the sort key raises for an entry without "id".
format_bibliography(entries, style) ==
    IF entries = <<>> THEN [raised |-> FALSE, text |-> <<"No sources cited.">>]
    ELSE IF \E i \in 1..Len(entries) : "id" \notin DOMAIN entries[i]
    THEN [raised |-> TRUE, text |-> <<>>]
    ELSE LET sorted == SortById(entries)
         IN [raised |-> FALSE,
             text |-> <<"# References\n\n">>
                      \o Flatten([i \in 1..Len(sorted) |-> format_entry(sorted[i], style)])]

\* ------------------------------------------ inputs of the ledger's calls
cAB    == <<"a", " ", "b">>
cABp   == <<" ", "A", "\n", " ", "B", "!">>      \* normalizes to "a b"
cBA    == <<"b", " ", "a">>                      \* same character set as "a b"
c6     == <<"a", "b", "c", "d", "e", "f">>
c5     == <<"a", "b", "c", "d", "e">>            \* Jaccard 5/6 with c6
c4     == <<"a", "b", "c", "d">>                 \* Jaccard 4/5 with c5: not above 0.8
cXY    == <<"x", "y">>
Q1     == <<"q", "1">>                           \* two supporting quotes
Q2     == <<"q", "2">>

LearningInputs ==
    { Learning(cAB,  <<"u1">>,       One,  "fact",    <<>>,    <<>>,     <<>>),
      Learning(cABp, <<"u2", "u2">>, Half, "",        <<"p">>, <<Q1>>, <<>>),
      Learning(cBA,  <<"u1", "u3">>, Zero, "opinion", <<"q">>, <<Q2>>, <<>>),
      Learning(c6,   <<"u2">>,       Half, "",        <<>>,    <<Q1>>, <<"h1">>),
      Learning(c5,   <<"u3">>,       One,  "fact",    <<"p">>, <<>>,     <<>>),
      Learning(c4,   <<>>,           One,  "",        <<>>,    <<>>,     <<>>),
      Learning(cXY,  <<"u1">>,       One,  "",        <<"p">>, <<Q2>>, <<"h1">>) }

TITLES == {"t1", "t2"}
SourceInputs == {SourceInfo(u, t, 0) : u \in URLS, t \in TITLES}

BulkInputs == { <<"u1", "u2">>, <<"u2", "u2", "u3">>, <<"u3", "u1", "u2">> }

P20 == Rep(<<"a", "b", "c", "d", "e">>, 4)       \* a paragraph of 20 characters
P19 == SubSeq(P20, 1, 19)                        \* too short to be a learning
PXY == Rep(<<"x", "y", " ">>, 7)                 \* 20 characters once stripped
TextInputs ==
    { P20 \o <<"\n", "\n">> \o P19,
      PXY \o <<"\n", " ", "\n", "\n">> \o P20 \o <<"\n">>,
      P19 }
ExtractUrls == {"u1", "u3"}

\* ------------------------------------------------- history bookkeeping
\* The URLs of list not in seen, without repetition, in list order.
RECURSIVE NewInOrder(_, _)
NewInOrder(seen, list) ==
    IF list = <<>> THEN <<>>
    ELSE IF Head(list) \in seen THEN NewInOrder(seen, Tail(list))
         ELSE <<Head(list)>> \o NewInOrder(seen \cup {Head(list)}, Tail(list))

\* ------------------------------------------------- search/search.py caches
\* SearchResult.__init__: missing or ill-typed fields get defaults.
SearchResult(title, url, snippet, source) ==
    [title   |-> IF title # "" THEN title ELSE "Untitled",
     url     |-> url,
     snippet |-> snippet,
     source  |-> IF source # "" THEN source ELSE "Unknown"]

\* SearchResult.to_dict and SearchResult(**d): the dict has the object's
\* fields, and rebuilding runs __init__ (and its defaults) again.
to_dict(r) == [title |-> r.title, url |-> r.url, snippet |-> r.snippet,
               source |-> r.source]
from_dict(d) == SearchResult(d.title, d.url, d.snippet, d.source)

Miss == [hit |-> FALSE]
Hit(value) == [hit |-> TRUE, value |-> value]

\* SearchCache.get(query, engine) at time t: the stored results while
\* t - timestamp <= ttl, None otherwise.
SearchCache_get(cache, query, engine, t) ==
    IF <<query, engine>> \in DOMAIN cache
    THEN IF t - cache[<<query, engine>>].timestamp <= SearchTtl
         THEN Hit(cache[<<query, engine>>].results)
         ELSE Miss
    ELSE Miss

\* SearchCache.set(query, engine, results) at time t: one file per key,
\* overwritten; results are stored as dicts.
SearchCache_set(cache, query, engine, results, t) ==
    LET dicts == [i \in 1..Len(results) |-> to_dict(results[i])]
    IN [k \in DOMAIN cache \cup {<<query, engine>>} |->
           IF k = <<query, engine>>
           THEN [timestamp |-> t, results |-> dicts]
           ELSE cache[k]]

\* What the two DuckDuckGo tools can do on one call.
PrimaryResults == <<SearchResult("t1", "https://a.org/p", "s1", "DuckDuckGo")>>
DdgOutcomes == {"results", "empty", "raise_fallback_ok", "raise_fallback_raise"}

\* UnifiedSearcher._search_duckduckgo(query) at time t.  The cached list is
\* served when it is truthy; otherwise the primary tool runs and its
\* non-empty result list is cached; when the primary tool raises, the
\* fallback tool's single result (or nothing) is returned uncached.
search_duckduckgo(cache, query, outcome, t) ==
    LET cached == SearchCache_get(cache, query, "duckduckgo", t) IN
    IF cached.hit /\ cached.value # <<>>
    THEN [cache |-> cache, fromCache |-> TRUE, wrote |-> FALSE, network |-> 0,
          ret |-> [i \in 1..Len(cached.value) |-> from_dict(cached.value[i])]]
    ELSE CASE outcome = "results" ->
                 [cache |-> SearchCache_set(cache, query, "duckduckgo", PrimaryResults, t),
                  fromCache |-> FALSE, wrote |-> TRUE, network |-> 1,
                  ret |-> PrimaryResults]
           [] outcome = "empty" ->
                 [cache |-> cache, fromCache |-> FALSE, wrote |-> FALSE, network |-> 1,
                  ret |-> <<>>]
           [] outcome = "raise_fallback_ok" ->
                 [cache |-> cache, fromCache |-> FALSE, wrote |-> FALSE, network |-> 2,
                  ret |-> <<SearchResult("DuckDuckGo Result", "", "s2", "DuckDuckGo")>>]
           [] OTHER ->
                 [cache |-> cache, fromCache |-> FALSE, wrote |-> FALSE, network |-> 2,
                  ret |-> <<>>]

\* ------------------------------------------- search/search.py: the engines
HumanizeMaxLen == 150      \* len(query) > 150
HumanizeMaxWords == 15     \* len(words) > 15, words[:15]
HumanizeHeadWords == 5     \* words[:5]
HumanizeTailWords == 10    \* words[-10:]
GoogleAttempts == 3        \* for attempt in range(3)

\* seq[:n]
Take(seq, n) == SubSeq(seq, 1, IF n < Len(seq) THEN n ELSE Len(seq))
\* seq[-n:]
TakeLast(seq, n) == SubSeq(seq, IF Len(seq) > n THEN Len(seq) - n + 1 ELSE 1, Len(seq))

\* str.split(): the maximal runs of non-whitespace characters.
RECURSIVE SplitWords(_, _)
SplitWords(t, word) ==
    IF t = <<>> THEN (IF word = <<>> THEN <<>> ELSE <<word>>)
    ELSE IF Head(t) \in WHITESPACE
         THEN (IF word = <<>> THEN <<>> ELSE <<word>>) \o SplitWords(Tail(t), <<>>)
         ELSE SplitWords(Tail(t), Append(word, Head(t)))

\* ' '.join(words)
RECURSIVE JoinWords(_)
JoinWords(words) ==
    IF words = <<>> THEN <<>>
    ELSE IF Len(words) = 1 THEN words[1]
    ELSE words[1] \o <<" ">> \o JoinWords(Tail(words))

\* UnifiedSearcher._humanize_query: ? ! " ' become spaces, whitespace is
\* collapsed, and a query of more than 150 characters is cut to its first 5
\* and last 10 words (or its first 15 words).
humanize_query(query) ==
    LET replaced == [i \in 1..Len(query) |->
                        IF query[i] \in {"?", "!", "\"", "'"} THEN " " ELSE query[i]]
        joined == JoinWords(SplitWords(replaced, <<>>))
        words == SplitWords(joined, <<>>)
    IN IF Len(joined) > HumanizeMaxLen
       THEN IF Len(words) > HumanizeMaxWords
            THEN JoinWords(Take(words, HumanizeHeadWords)
                           \o TakeLast(words, HumanizeTailWords))
            ELSE JoinWords(Take(words, HumanizeMaxWords))
       ELSE joined

\* What the engines' libraries give for a query, already converted to
\* SearchResult objects (for Google: after filtering and ranking).  The
\* first Google result has the URL of the DuckDuckGo result.
GoogleResults ==
    << SearchResult("g1", "https://a.org/p", "s3", "Google"),
       SearchResult("g2", "https://b.org/p", "s4", "Google") >>
WikipediaResults ==
    << SearchResult("w1", "https://w.org/1", "s5", "Wikipedia"),
       SearchResult("w2", "https://w.org/2", "s6", "Wikipedia") >>
ArxivResults ==
    << SearchResult("x1", "https://x.org/1", "s7", "arXiv"),
       SearchResult("x2", "https://x.org/2", "s8", "arXiv") >>

\* What an engine function returns: the cache after it, the result list,
\* whether the list came from the cache, whether the cache was written, and
\* the number of network calls made.
EngineReturn(cache, ret, fromCache, wrote, network) ==
    [cache |-> cache, ret |-> ret, fromCache |-> fromCache, wrote |-> wrote,
     network |-> network]

\* The common shape of the three engine functions below: serve a truthy
\* cached list, else take what the library gave and cache it when non-empty.
Served(cached) == [i \in 1..Len(cached.value) |-> from_dict(cached.value[i])]

GoogleOutcomes == {"results", "empty", "raise"}
\* _async_google_search that keys the cache by the raw query.
async_google_search_rawkey(cache, query, num_results, outcome, t) ==
    LET cached == SearchCache_get(cache, query, "google", t)
    IN IF cached.hit /\ cached.value # <<>>
       THEN EngineReturn(cache, Served(cached), TRUE, FALSE, 0)
       ELSE CASE outcome = "results" ->
                    LET results == Take(GoogleResults, num_results) IN
                    EngineReturn(SearchCache_set(cache, query, "google", results, t),
                                 results, FALSE, TRUE, 1)
              [] outcome = "empty" -> EngineReturn(cache, <<>>, FALSE, FALSE, 1)
              [] OTHER -> EngineReturn(cache, <<>>, FALSE, FALSE, GoogleAttempts)

\* UnifiedSearcher._async_google_search(query, num_results) at time t.  The
\* cache key is the humanized query; up to three attempts are made and the
\* first that does not raise ends the loop.
async_google_search(cache, query, num_results, outcome, t) ==
    LET search_query == humanize_query(query)
        cached == SearchCache_get(cache, search_query, "google", t)
    IN IF cached.hit /\ cached.value # <<>>
       THEN EngineReturn(cache, Served(cached), TRUE, FALSE, 0)
       ELSE CASE outcome = "results" ->
                    LET results == Take(GoogleResults, num_results) IN
                    EngineReturn(SearchCache_set(cache, search_query, "google", results, t),
                                 results, FALSE, TRUE, 1)
              [] outcome = "empty" -> EngineReturn(cache, <<>>, FALSE, FALSE, 1)
              [] OTHER -> EngineReturn(cache, <<>>, FALSE, FALSE, GoogleAttempts)

WikipediaOutcomes == {"results", "empty", "raise"}
\* UnifiedSearcher._search_wikipedia(query, max_results) at time t.
search_wikipedia(cache, query, max_results, outcome, t) ==
    LET cached == SearchCache_get(cache, query, "wikipedia", t)
    IN IF cached.hit /\ cached.value # <<>>
       THEN EngineReturn(cache, Served(cached), TRUE, FALSE, 0)
       ELSE CASE outcome = "results" ->
                    LET results == Take(WikipediaResults, max_results) IN
                    EngineReturn(SearchCache_set(cache, query, "wikipedia", results, t),
                                 results, FALSE, TRUE, 1)
              [] OTHER -> EngineReturn(cache, <<>>, FALSE, FALSE, 1)

ArxivOutcomes == {"results", "empty", "raise", "partial"}
\* UnifiedSearcher._search_arxiv(query, max_results) at time t.  The loop
\* over the papers is inside the try block and the cache write follows it:
\* when a later paper makes the loop raise ("partial"), the results built so
\* far are returned without having been cached.
search_arxiv(cache, query, max_results, outcome, t) ==
    LET cached == SearchCache_get(cache, query, "arxiv", t)
    IN IF cached.hit /\ cached.value # <<>>
       THEN EngineReturn(cache, Served(cached), TRUE, FALSE, 0)
       ELSE CASE outcome = "results" ->
                    LET results == Take(ArxivResults, max_results) IN
                    EngineReturn(SearchCache_set(cache, query, "arxiv", results, t),
                                 results, FALSE, TRUE, 1)
              [] outcome = "partial" ->
                    EngineReturn(cache, Take(ArxivResults, max_results - 1),
                                 FALSE, FALSE, 1)
              [] OTHER -> EngineReturn(cache, <<>>, FALSE, FALSE, 1)


\* ------------------------------------------- search/search.py: search()
\* merge_results, "alternate", that stops after the first round.
merge_results_one_round(results, strategy) ==
    LET sources == NewInOrder({}, [i \in 1..Len(results) |-> results[i].source])
        group(j) == SelectSeq(results, LAMBDA r : r.source = sources[j])
    IN Flatten([j \in 1..Len(sources) |-> <<group(j)[1]>>])

\* UnifiedSearcher.merge_results(results, strategy) for the strategies
\* "alternate" (the one search uses: results grouped by source in order of
\* first appearance, then taken round-robin) and "source_priority" (the
\* list as it is).
merge_results(results, strategy) ==
    IF results = <<>> THEN <<>>
    ELSE IF strategy = "alternate"
    THEN LET sources == NewInOrder({}, [i \in 1..Len(results) |-> results[i].source])
             group(j) == SelectSeq(results, LAMBDA r : r.source = sources[j])
             max_len == SetMax({Len(group(j)) : j \in 1..Len(sources)})
         IN Flatten([i \in 1..max_len |->
                Flatten([j \in 1..Len(sources) |->
                    IF i <= Len(group(j)) THEN <<group(j)[i]>> ELSE <<>>])])
    ELSE results

\* The order in which search creates the engine tasks.
ENGINES == <<"duckduckgo", "google", "wikipedia", "arxiv">>
Max(a, b) == IF a >= b THEN a ELSE b

\* One engine task of search: the engine coroutine, or an exception raised
\* by it ("crash"), which gather(return_exceptions=True) hands back and
\* search skips.
engine_task(cache, engine, query, results_per_engine, outcome, t) ==
    IF outcome = "crash" THEN EngineReturn(cache, <<>>, FALSE, FALSE, 0)
    ELSE CASE engine = "duckduckgo" ->
                 search_duckduckgo(cache, query, outcome, t)
           [] engine = "google" ->
                 async_google_search(cache, query, results_per_engine, outcome, t)
           [] engine = "wikipedia" ->
                 search_wikipedia(cache, query, Max(1, results_per_engine \div 2),
                                  outcome, t)
           [] OTHER ->
                 search_arxiv(cache, query, Max(1, results_per_engine \div 2),
                              outcome, t)

\* The engine tasks of search, run one after the other (they write
\* different cache files): the cache after them and what each returned.
RECURSIVE run_tasks(_, _, _, _, _, _, _)
run_tasks(cache, k, query, engines, results_per_engine, env, t) ==
    IF k > Len(ENGINES) THEN [cache |-> cache, parts |-> <<>>]
    ELSE IF ENGINES[k] \notin Range(engines)
         THEN run_tasks(cache, k + 1, query, engines, results_per_engine, env, t)
         ELSE LET r == engine_task(cache, ENGINES[k], query, results_per_engine,
                                   env[ENGINES[k]], t)
                  rest == run_tasks(r.cache, k + 1, query, engines,
                                    results_per_engine, env, t)
              IN [cache |-> rest.cache,
                  parts |-> <<[engine |-> ENGINES[k], ret |-> r.ret,
                               fromCache |-> r.fromCache]>> \o rest.parts]

\* UnifiedSearcher.search(query, engines) at time t.  An empty engine list
\* makes max_results // len(engines) raise ZeroDivisionError.
search(cache, query, engines, env, t) ==
    IF Len(engines) = 0
    THEN [cache |-> cache, raised |-> TRUE, ret |-> <<>>, parts |-> <<>>]
    ELSE LET results_per_engine == Max(2, MaxResults \div Len(engines))
             done == run_tasks(cache, 1, query, engines, results_per_engine, env, t)
             all_results == Flatten([i \in 1..Len(done.parts) |-> done.parts[i].ret])
         IN [cache |-> done.cache, raised |-> FALSE, parts |-> done.parts,
             ret |-> Take(merge_results(all_results, "alternate"), MaxResults)]

\* ------------------------------------------------ scraper/scraper.py caches
MaxRetries == 2     \* WebScraper(max_retries=2)
NoError == ""       \* ScrapedContent.error is None

\* URLs are kept parsed: urlparse(url) is the record itself.
PageUrl == [scheme |-> "https", netloc |-> "a.org", path |-> <<"/", "p">>]
ScrapeUrls == {PageUrl}

ScrapedContent(url, title, text, html, status_code, error) ==
    [url |-> url, title |-> title, text |-> text, html |-> html,
     status_code |-> status_code, error |-> error]

\* ScrapedContent.is_successful: no error and text that is not blank.
is_successful(content) == content.error = NoError /\ Strip(content.text) # <<>>

\* ScrapedContent.from_error(url, error).
from_error(url, error) == ScrapedContent(url, "Error", <<>>, "", 0, error)

\* ScraperCache.get without the expiry test.
ScraperCache_get_noexpiry(cache, url, t) ==
    IF url \in DOMAIN cache THEN Hit(cache[url].content) ELSE Miss

\* ScraperCache.get(url) at time t: the stored content while
\* t - timestamp <= ttl, None otherwise.  Entries written by set always
\* carry the required fields.
ScraperCache_get(cache, url, t) ==
    IF url \in DOMAIN cache
    THEN IF t - cache[url].timestamp <= ScraperTtl
         THEN Hit(cache[url].content)
         ELSE Miss
    ELSE Miss

\* ScraperCache.set(content) at time t: one file per URL, overwritten.
ScraperCache_set(cache, content, t) ==
    [u \in DOMAIN cache \cup {content.url} |->
        IF u = content.url THEN [timestamp |-> t, content |-> content]
        ELSE cache[u]]

\* RobotsChecker.__init__.
RobotsInit == [parsers |-> <<>>, last_checked |-> <<>>]

\* What fetching robots.txt can give: rules that allow the URL, rules that
\* disallow it, a non-200 answer, or an exception.
RobotsOutcomes == {"allow", "deny", "missing", "error"}

\* RobotsChecker.can_fetch(url, user_agent) at time t.  A parsed robots.txt
\* is modelled by its verdict on the URL.
\* can_fetch that answers from the parser it holds, however old, when
\* robots.txt cannot be fetched.
can_fetch_stale(rob, url, outcome, t) ==
    IF url.netloc = "" THEN [robots |-> rob, allowed |-> FALSE, fetched |-> FALSE]
    ELSE LET domain == <<url.scheme, url.netloc>> IN
         IF /\ domain \in DOMAIN rob.parsers
            /\ t - rob.last_checked[domain] < RobotsTtl
         THEN [robots |-> rob, allowed |-> rob.parsers[domain] = "allow",
               fetched |-> FALSE]
         ELSE IF outcome \in {"missing", "error"}
              THEN [robots |-> rob, fetched |-> TRUE,
                    allowed |-> IF domain \in DOMAIN rob.parsers
                                THEN rob.parsers[domain] = "allow" ELSE TRUE]
              ELSE [robots |->
                        [parsers |-> (domain :> outcome) @@ rob.parsers,
                         last_checked |-> (domain :> t) @@ rob.last_checked],
                    allowed |-> outcome = "allow", fetched |-> TRUE]

\* `fetched` tells whether robots.txt was requested.
can_fetch(rob, url, outcome, t) ==
    IF url.netloc = "" THEN [robots |-> rob, allowed |-> FALSE, fetched |-> FALSE]
    ELSE LET domain == <<url.scheme, url.netloc>> IN
         IF /\ domain \in DOMAIN rob.parsers
            /\ t - rob.last_checked[domain] < RobotsTtl
         THEN [robots |-> rob, allowed |-> rob.parsers[domain] = "allow",
               fetched |-> FALSE]
         ELSE IF outcome \in {"missing", "error"}
              THEN [robots |-> rob, allowed |-> TRUE, fetched |-> TRUE]
              ELSE [robots |->
                        [parsers |-> (domain :> outcome) @@ rob.parsers,
                         last_checked |-> (domain :> t) @@ rob.last_checked],
                    allowed |-> outcome = "allow", fetched |-> TRUE]

\* What one page fetch can give: a page, a JSON document nested deeper than
\* the interpreter's recursion limit, a non-2xx answer, nothing (timeout),
\* or an exception.
FetchOutcomes == {"ok", "deep_json", "http_error", "none", "raise"}

NoPage == [html |-> "", content_type |-> "", status_code |-> 0]
HtmlPage(status_code) ==
    [html |-> "<html>", content_type |-> "text/html", status_code |-> status_code]
DeepJsonPage == [html |-> "[[[[", content_type |-> "application/json", status_code |-> 200]

\* WebScraper.PROBLEMATIC_DOMAINS (one of the five).
PROBLEMATIC_DOMAINS == {"msn.com"}

\* _get_page_simple: the body of a 2xx answer; None for any other status,
\* for a timeout and for an exception.
get_page_simple(outcome) ==
    CASE outcome = "ok" -> HtmlPage(200)
      [] outcome = "deep_json" -> DeepJsonPage
      [] outcome = "http_error" -> [NoPage EXCEPT !.status_code = 404]
      [] OTHER -> NoPage

\* _get_page_dynamic: the rendered document whatever the status (the
\* browser renders a JSON answer as an HTML document too); None for a
\* timeout and for an exception; the simple fetch for a problematic domain.
\* `attempt` holds what each of the two paths would give.
get_page_dynamic(url, attempt) ==
    IF url.netloc \in PROBLEMATIC_DOMAINS THEN get_page_simple(attempt.static)
    ELSE CASE attempt.dynamic \in {"ok", "deep_json"} -> HtmlPage(200)
           [] attempt.dynamic = "http_error" -> HtmlPage(404)
           [] OTHER -> NoPage

\* The path one attempt of scrape_url takes.
path_taken(url, dynamic) ==
    IF dynamic /\ url.netloc \notin PROBLEMATIC_DOMAINS THEN "dynamic" ELSE "static"

\* One attempt of the retry loop of scrape_url.
get_page(url, dynamic, attempt) ==
    IF dynamic THEN get_page_dynamic(url, attempt) ELSE get_page_simple(attempt.static)

\* The retry loop of scrape_url: the number of fetches made, the path each
\* took, and the page of the last one.  The loop stops at the first attempt
\* that returns html.
RECURSIVE fetch_with_retries(_, _, _, _)
fetch_with_retries(url, dynamic, attempts, n) ==
    LET page == get_page(url, dynamic, attempts[n])
    IN IF page.html # "" \/ n = MaxRetries
       THEN [fetches |-> n, page |-> page,
             paths |-> [i \in 1..n |-> path_taken(url, dynamic)]]
       ELSE fetch_with_retries(url, dynamic, attempts, n + 1)

\* _extract_content raises on a JSON answer that json.loads cannot parse
\* within the recursion limit (only JSONDecodeError is caught there).
extraction_raises(page) == page = DeepJsonPage

\* The texts _extract_content can produce from a page.
ExtractedTexts == {<<>>, <<" ">>, <<"t">>}


\* What a scrape_url call did: the cache and the RobotsChecker after it,
\* whether it served the cache, whether it requested robots.txt, the path of
\* each page fetch it made, whether it wrote the cache, and either the
\* exception leaving it (raised) or the ScrapedContent it returned (ret).
ScrapeReturn(cache, rc, fromCache, paths, wrote, raised, ret) ==
    [cache |-> cache, robots |-> rc.robots, fromCache |-> fromCache,
     robots_fetched |-> rc.fetched, fetches |-> Len(paths), paths |-> paths,
     wrote |-> wrote, raised |-> raised, ret |-> ret]

\* scrape_fresh that writes every fetched page to the cache.
scrape_fresh_cache_all(cache, rob, url, dynamic, respect_robots, robots_outcome, attempts, text, t) ==
    LET rc == IF respect_robots THEN can_fetch(rob, url, robots_outcome, t)
              ELSE [robots |-> rob, allowed |-> TRUE, fetched |-> FALSE]
    IN IF ~rc.allowed
       THEN ScrapeReturn(cache, rc, FALSE, <<>>, FALSE, FALSE,
                         from_error(url, "denied by robots.txt"))
       ELSE LET f == fetch_with_retries(url, dynamic, attempts, 1) IN
            IF f.page.html = ""
            THEN ScrapeReturn(cache, rc, FALSE, f.paths, FALSE, FALSE,
                              from_error(url, "failed to fetch"))
            ELSE IF extraction_raises(f.page)
            THEN ScrapeReturn(cache, rc, FALSE, f.paths, FALSE, TRUE,
                              from_error(url, "RecursionError"))
            ELSE LET result == ScrapedContent(url, "title", text, f.page.html,
                                              f.page.status_code, NoError)
                     write == TRUE
                 IN ScrapeReturn(IF write THEN ScraperCache_set(cache, result, t)
                                 ELSE cache,
                                 rc, FALSE, f.paths, write, FALSE, result)

\* scrape_fresh that fetches the page whatever can_fetch answered.
scrape_fresh_ignore_robots(cache, rob, url, dynamic, respect_robots, robots_outcome, attempts, text, t) ==
    LET rc == IF respect_robots THEN can_fetch(rob, url, robots_outcome, t)
              ELSE [robots |-> rob, allowed |-> TRUE, fetched |-> FALSE]
        f == fetch_with_retries(url, dynamic, attempts, 1)
    IN IF f.page.html = ""
       THEN ScrapeReturn(cache, rc, FALSE, f.paths, FALSE, FALSE,
                         from_error(url, "failed to fetch"))
       ELSE IF extraction_raises(f.page)
       THEN ScrapeReturn(cache, rc, FALSE, f.paths, FALSE, TRUE,
                         from_error(url, "RecursionError"))
       ELSE LET result == ScrapedContent(url, "title", text, f.page.html,
                                         f.page.status_code, NoError)
                write == is_successful(result)
            IN ScrapeReturn(IF write THEN ScraperCache_set(cache, result, t)
                            ELSE cache,
                            rc, FALSE, f.paths, write, FALSE, result)

\* The part of scrape_url after the cache lookup: robots.txt, the fetch
\* with retries, content extraction, and the cache write of a successful
\* result.
scrape_fresh(cache, rob, url, dynamic, respect_robots, robots_outcome, attempts, text, t) ==
    LET rc == IF respect_robots THEN can_fetch(rob, url, robots_outcome, t)
              ELSE [robots |-> rob, allowed |-> TRUE, fetched |-> FALSE]
    IN IF ~rc.allowed
       THEN ScrapeReturn(cache, rc, FALSE, <<>>, FALSE, FALSE,
                         from_error(url, "denied by robots.txt"))
       ELSE LET f == fetch_with_retries(url, dynamic, attempts, 1) IN
            IF f.page.html = ""
            THEN ScrapeReturn(cache, rc, FALSE, f.paths, FALSE, FALSE,
                              from_error(url, "failed to fetch"))
            ELSE IF extraction_raises(f.page)
            THEN ScrapeReturn(cache, rc, FALSE, f.paths, FALSE, TRUE,
                              from_error(url, "RecursionError"))
            ELSE LET result == ScrapedContent(url, "title", text, f.page.html,
                                              f.page.status_code, NoError)
                     write == is_successful(result)
                 IN ScrapeReturn(IF write THEN ScraperCache_set(cache, result, t)
                                 ELSE cache,
                                 rc, FALSE, f.paths, write, FALSE, result)

\* WebScraper.scrape_url(url, dynamic, force_refresh) at time t.
scrape_url(cache, rob, url, dynamic, force_refresh, respect_robots, robots_outcome, attempts, text, t) ==
    LET cached == IF force_refresh THEN Miss ELSE ScraperCache_get(cache, url, t) IN
    IF cached.hit
    THEN ScrapeReturn(cache, [robots |-> rob, fetched |-> FALSE], TRUE, <<>>, FALSE,
                      FALSE, cached.value)
    ELSE scrape_fresh(cache, rob, url, dynamic, respect_robots, robots_outcome,
                      attempts, text, t)


\* --------------------------------- WebScraper: the semaphore, scrape_urls
\* WebScraper._semaphore before the first instance is made.
NoSemaphore == [created |-> FALSE, limit |-> 0, value |-> 0]

\* WebScraper.__init__(max_concurrent): the class attribute is created by
\* the first instance, with that instance's max_concurrent, and every
\* instance uses it.
init_semaphore(sem, max_concurrent) ==
    IF sem.created THEN sem
    ELSE [created |-> TRUE, limit |-> max_concurrent, value |-> max_concurrent]

\* url.rstrip('/') for a URL that has a host: the slashes at the end of the
\* path go.
RECURSIVE RStripSlash(_)
RStripSlash(path) ==
    IF path # <<>> /\ path[Len(path)] = "/"
    THEN RStripSlash(SubSeq(path, 1, Len(path) - 1))
    ELSE path
rstrip_slash(url) == [url EXCEPT !.path = RStripSlash(@)]

\* scrape_urls: unique_urls, the URLs whose rstrip('/') was not seen before.
RECURSIVE unique_urls_from(_, _)
unique_urls_from(seen_urls, urls) ==
    IF urls = <<>> THEN <<>>
    ELSE LET normalized_url == rstrip_slash(Head(urls)) IN
         IF normalized_url \in seen_urls
         THEN unique_urls_from(seen_urls, Tail(urls))
         ELSE <<Head(urls)>>
              \o unique_urls_from(seen_urls \cup {normalized_url}, Tail(urls))
unique_urls(urls) == unique_urls_from({}, urls)

\* One scrape_with_semaphore(url) task of a batch: waiting for the
\* semaphore, fetching its page under it, or done.  A fetching task carries
\* what its scrape_url call will have done when it ends.
NewTask(url) ==
    [url |-> url, status |-> "waiting", ret |-> from_error(url, "not run"),
     wrote |-> FALSE, raised |-> FALSE]

RECURSIVE NewTasks(_)
NewTasks(urls) ==
    IF urls = <<>> THEN <<>> ELSE <<NewTask(Head(urls))>> \o NewTasks(Tail(urls))

\* scrape_urls(urls, dynamic) on a scraper, up to asyncio.gather: one task
\* for each of unique_urls.
scrape_urls(scraper, urls, dynamic) ==
    [scraper |-> scraper, urls |-> urls, dynamic |-> dynamic,
     tasks |-> NewTasks(unique_urls(urls)), state |-> "running", ret |-> <<>>]

\* asyncio.gather(*tasks): the results of the tasks in the order of the tasks.
RECURSIVE gather(_)
gather(tasks) ==
    IF tasks = <<>> THEN <<>> ELSE <<Head(tasks).ret>> \o gather(Tail(tasks))

\* ================================================= the research controller
\* agents/langgraph_agent.py, agents/graph/builder.py, agents/nodes/*.py,
\* agents/utils/agent_utils.py, agents/processors/report_generator.py

\* An awaited LanguageModel call either raises or returns a message.
Raise == [raised |-> TRUE, content |-> <<>>]
Reply(content) == [raised |-> FALSE, content |-> content]

\* ----------------------------------------------------- generate_queries
\* str.split("\n")
RECURSIVE SplitLines(_, _)
SplitLines(t, line) ==
    IF t = <<>> THEN <<line>>
    ELSE IF Head(t) = "\n" THEN <<line>> \o SplitLines(Tail(t), <<>>)
    ELSE SplitLines(Tail(t), Append(line, Head(t)))

\* str.lower()
RECURSIVE LowerStr(_)
LowerStr(t) == IF t = <<>> THEN <<>> ELSE <<Lower(Head(t))>> \o LowerStr(Tail(t))

\* the character class [\d\s\-\*•\.\)] on the alphabet used here
NumberingChars == DIGITS \cup WHITESPACE \cup {"-", "*", ".", ")"}

RECURSIVE DropWhileIn(_, _)
DropWhileIn(t, chars) ==
    IF t # <<>> /\ Head(t) \in chars THEN DropWhileIn(Tail(t), chars) ELSE t

\* re.sub(r'^[\d\s\-\*•\.\)]+\s*', '', line).strip()
strip_numbering(line) == Strip(DropWhileIn(line, NumberingChars))

LeadPhrases ==
    { <<"h", "e", "r", "e", " ", "a", "r", "e">>,
      <<"i", " ", "w", "i", "l", "l">>,
      <<"i", "'", "l", "l">>,
      <<"l", "e", "t", " ", "m", "e">>,
      <<"t", "h", "e", "s", "e", " ", "a", "r", "e">>,
      <<"i", " ", "r", "e", "c", "o", "m", "m", "e", "n", "d">>,
      <<"c", "o", "m", "p", "l", "e", "t", "e", "d", ":">>,
      <<"s", "e", "a", "r", "c", "h", " ", "f", "o", "r", ":">> }

\* re.sub(r'^(here are|i will|...|search for:).*?:', '', line,
\*        flags=re.IGNORECASE).strip(): a line that starts with one of the
\* phrases loses everything up to the first colon after the phrase.
strip_lead_in(line) ==
    LET heads == {p \in LeadPhrases : IsPrefix(p, LowerStr(line))} IN
    IF heads = {} THEN Strip(line)
    ELSE LET p == CHOOSE h \in heads : TRUE
             colons == {j \in (Len(p) + 1)..Len(line) : line[j] = ":"}
         IN IF colons = {} THEN Strip(line)
            ELSE LET first == CHOOSE j \in colons : \A k \in colons : j <= k
                 IN Strip(SubSeq(line, first + 1, Len(line)))

NonQueryStarts ==
    { <<"q", "u", "e", "r", "y">>,
      <<"s", "e", "a", "r", "c", "h">>,
      <<"i", "n", "v", "e", "s", "t", "i", "g", "a", "t", "e">>,
      <<"e", "x", "p", "l", "o", "r", "e">>,
      <<"r", "e", "s", "e", "a", "r", "c", "h">> }

\* q and len(q.split()) >= 2 and not q.lower().startswith((...))
looks_like_query(q) ==
    /\ q # <<>>
    /\ Len(SplitWords(q, <<>>)) >= 2
    /\ ~\E w \in NonQueryStarts : IsPrefix(w, LowerStr(q))

\* [line.strip() for line in content.split("\n") if line.strip()]
RECURSIVE NonEmptyLines(_)
NonEmptyLines(raw) ==
    IF raw = <<>> THEN <<>>
    ELSE IF Strip(Head(raw)) = <<>> THEN NonEmptyLines(Tail(raw))
    ELSE <<Strip(Head(raw))>> \o NonEmptyLines(Tail(raw))

\* the two re.sub passes over the lines
RECURSIVE BareLines(_)
BareLines(lines) ==
    IF lines = <<>> THEN <<>>
    ELSE <<strip_lead_in(strip_numbering(Head(lines)))>> \o BareLines(Tail(lines))

\* The parsing of a reply into queries (generate_queries.py:54-62, and the
\* same five statements again at 75-83).
parse_queries(content, breadth) ==
    LET lines == NonEmptyLines(SplitLines(content, <<>>)) IN
    Take(SelectSeq(BareLines(lines), looks_like_query), breadth)

DefaultSuffixes ==
    << <<" ", "l", "a", "t", "e", "s", "t", " ", "r", "e", "s", "e", "a", "r", "c", "h">>,
       <<" ", "e", "x", "a", "m", "p", "l", "e", "s">>,
       <<" ", "a", "p", "p", "l", "i", "c", "a", "t", "i", "o", "n", "s">> >>

\* [f"{query} latest research", f"{query} examples",
\*  f"{query} applications"][:breadth]
default_queries(query, breadth) ==
    Take(<<query \o DefaultSuffixes[1], query \o DefaultSuffixes[2],
           query \o DefaultSuffixes[3]>>, breadth)

\* The queries generate_queries_node settles on before its last fallback:
\* the primary reply parsed; if the primary attempt raised, the simplified
\* reply parsed; if that raised too, the defaults.
generated_queries(state, primary, simplified) ==
    IF ~primary.raised THEN parse_queries(primary.content, state.breadth)
    ELSE IF ~simplified.raised THEN parse_queries(simplified.content, state.breadth)
    ELSE default_queries(state.query, state.breadth)

\* A faulty generate_queries_node: the `[state["query"]]` fallback is missing.
generate_queries_node_no_fallback(state, primary, simplified) ==
    [state EXCEPT !.status = "Generating research queries",
                  !.subqueries = @ \o generated_queries(state, primary, simplified)]

\* generate_queries_node
generate_queries_node(state, primary, simplified) ==
    LET new_queries == generated_queries(state, primary, simplified)
        appended == IF new_queries = <<>> /\ state.query # <<>>
                    THEN <<state.query>> ELSE new_queries
    IN [state EXCEPT !.status = "Generating research queries",
                     !.subqueries = @ \o appended]

\* ------------------------------------------------------------ the state
\* Texts other than queries (plans, findings, reports) are sequences of
\* pieces [kind, n]: what the piece is and how many characters it has.
Piece(kind, n) == [kind |-> kind, n |-> n]
RECURSIVE TextLen(_)
TextLen(text) == IF text = <<>> THEN 0 ELSE Head(text).n + TextLen(Tail(text))

MinDepth == 1
MaxDepth == 5
MinBreadth == 1
MaxBreadth == 10
Min(a, b) == IF a <= b THEN a ELSE b

\* ResearchGraph.research: the clamped depth and breadth and the initial
\* AgentState.  iteration_count = 0 stands for the key being absent.
initial_state_unclamped(query, depth, breadth) ==
    [query |-> query, depth |-> depth, breadth |-> breadth,
     current_depth |-> 0, findings |-> <<>>, content_analysis |-> 0,
     selected_sources |-> <<>>, formatted_citations |-> <<>>,
     subqueries |-> <<>>, status |-> "Starting", initial_report |-> <<>>,
     enhanced_report |-> <<>>, final_report |-> <<>>, iteration_count |-> 0]

initial_state(query, depth, breadth) ==
    [query |-> query,
     depth |-> Max(MinDepth, Min(MaxDepth, depth)),
     breadth |-> Max(MinBreadth, Min(MaxBreadth, breadth)),
     current_depth |-> 0, findings |-> <<>>, content_analysis |-> 0,
     selected_sources |-> <<>>, formatted_citations |-> <<>>,
     subqueries |-> <<>>, status |-> "Starting", initial_report |-> <<>>,
     enhanced_report |-> <<>>, final_report |-> <<>>, iteration_count |-> 0]

\* ---------------------------------------------------------- cancellation
\* agent_utils.py: _shutdown_requested, _shutdown_counter and whether
\* os._exit(1) was called.
MAX_SHUTDOWN_ATTEMPTS == 3
ShutdownInit == [requested |-> FALSE, counter |-> 0, exited |-> FALSE]

\* setup_signal_handlers.signal_handler
signal_handler(sd) ==
    [requested |-> TRUE, counter |-> sd.counter + 1,
     exited |-> sd.counter + 1 >= MAX_SHUTDOWN_ATTEMPTS]

\* get_user_input, when input() is interrupted: the flag without the counter
input_interrupted(sd) == [sd EXCEPT !.requested = TRUE]

IterationCeiling == 25
ForcefulLevel == 2

\* A faulty should_continue: only the third signal is forceful.
should_continue_third(state, sd) ==
    IF sd.requested
    THEN [state |-> state,
          edge |-> IF sd.counter >= ForcefulLevel + 1 THEN "end"
                   ELSE IF state.current_depth >= state.depth THEN "end"
                   ELSE "continue"]
    ELSE LET counted == [state EXCEPT !.iteration_count = @ + 1] IN
         [state |-> counted,
          edge |-> IF counted.iteration_count >= IterationCeiling THEN "end"
                   ELSE IF counted.current_depth < counted.depth THEN "continue"
                   ELSE "end"]

\* should_continue: the edge taken after search, and the state dict as the
\* function leaves it.
should_continue(state, sd) ==
    IF sd.requested
    THEN [state |-> state,
          edge |-> IF sd.counter >= ForcefulLevel THEN "end"
                   ELSE IF state.current_depth >= state.depth THEN "end"
                   ELSE "continue"]
    ELSE LET counted == [state EXCEPT !.iteration_count = @ + 1] IN
         [state |-> counted,
          edge |-> IF counted.iteration_count >= IterationCeiling THEN "end"
                   ELSE IF counted.current_depth < counted.depth THEN "continue"
                   ELSE "end"]

\* ---------------------------------------------------------------- nodes
\* A node either returns the state or raises (create_node_wrapper re-raises,
\* and research() catches KeyboardInterrupt only).
Returned(state) == [raised |-> FALSE, state |-> state]
Raised(state) == [raised |-> TRUE, state |-> state]

\* A two-attempt LanguageModel step (try the primary prompt, on an exception
\* the simpler one): the reply used, or a raise when neither attempt is
\* guarded by a further except.
two_attempts(attempts) ==
    IF ~attempts[1].raised THEN attempts[1] ELSE attempts[2]

PlanHeading == Piece("# Research Plan", 17)
FindingsHeading == Piece("# Initial Findings", 22)
FormattedPlan == Piece("formatted plan", 120)
MinimalPlan == Piece("minimal plan", 90)

\* initialize_node: the plan is the formatted one (its sections have
\* defaults), the simpler reply, or the minimal plan.
initialize_node(state, attempts) ==
    LET plan == IF ~attempts[1].raised THEN <<FormattedPlan>>
                ELSE IF ~attempts[2].raised THEN attempts[2].content
                ELSE <<MinimalPlan>>
    IN [state EXCEPT !.status = "Initializing research",
                     !.findings = <<PlanHeading>> \o plan \o <<FindingsHeading>>]

ReflectionHeading == Piece("## Reflection on Current Findings", 37)
FormattedReflection == Piece("formatted reflection", 200)
MinimalReflection == Piece("minimal reflection", 140)

\* reflect_node
reflect_node(state, attempts) ==
    LET reflection == IF ~attempts[1].raised THEN <<FormattedReflection>>
                      ELSE IF ~attempts[2].raised THEN attempts[2].content
                      ELSE <<MinimalReflection>>
    IN [state EXCEPT !.status = "Reflecting on findings",
                     !.findings = @ \o <<ReflectionHeading>> \o reflection]

MaxBatch == 3
AnalysisPiece == Piece("## Research on", 60)

\* A faulty search_node: a pass in which no sub-query was analysed leaves
\* current_depth as it was.
search_node_no_step_on_failure(state, analysed) ==
    LET recent_queries == IF state.breadth = 0 THEN state.subqueries
                          ELSE TakeLast(state.subqueries, state.breadth)
        tasks == NewInOrder({}, recent_queries)
        searching == [state EXCEPT !.status = "Searching and analyzing content"]
    IN IF Len(tasks) = 0 THEN Raised(searching)
       ELSE Returned([searching EXCEPT
                !.findings = IF analysed THEN @ \o Rep(<<AnalysisPiece>>, Len(tasks)) ELSE @,
                !.content_analysis = IF analysed THEN @ + Len(tasks) ELSE @,
                !.current_depth = IF analysed THEN @ + 1 ELSE @,
                !.status = "Completed depth"])

\* search_node: the last `breadth` sub-queries (all of them for [-0:]), each once, in batches of
\* min(3, len(tasks)); range(0, len(tasks), 0) raises ValueError when there
\* is no task.  `analysed` says whether the analysis of a sub-query reached
\* the statement that appends to findings (every failure before it is
\* caught in process_query).
search_node(state, analysed) ==
    LET recent_queries == IF state.breadth = 0 THEN state.subqueries
                          ELSE TakeLast(state.subqueries, state.breadth)
        tasks == NewInOrder({}, recent_queries)
        batch_size == Min(MaxBatch, Len(tasks))
        searching == [state EXCEPT !.status = "Searching and analyzing content"]
    IN IF batch_size = 0 THEN Raised(searching)
       ELSE Returned([searching EXCEPT
                !.findings = IF analysed THEN @ \o Rep(<<AnalysisPiece>>, Len(tasks)) ELSE @,
                !.content_analysis = IF analysed THEN @ + Len(tasks) ELSE @,
                !.current_depth = @ + 1,
                !.status = "Completed depth"])

\* ------------------------------------------------------ synthesis stages
SourceUrl == "https://a.org/p"

\* ------------------------------------- search_node, sub-query by sub-query
\* What happens to one sub-query inside process_query: its analysis is
\* stored; searcher.search (or a relevance check, or the fetch) raises, which
\* the outer except catches; or analyze_content raises, which the inner
\* except catches.
QueryOutcomes == {"analysed", "search_raises", "analysis_raises"}

\* state["subqueries"][-state["breadth"]:]
recent_queries(state) ==
    IF state.breadth = 0 THEN state.subqueries
    ELSE TakeLast(state.subqueries, state.breadth)

\* search_node, lines 149-153: the keys of the tasks dict, in insertion order
search_tasks(state) == NewInOrder({}, recent_queries(state))

\* What searcher.search returns for a sub-query: one result, titled by it.
SearchResultsFor(subquery) == <<SearchResult(subquery, SourceUrl, "", "engine")>>
Section(subquery) == [kind |-> "## Research on", subquery |-> subquery]

\* A faulty merge: the findings are replaced by the new section.
merge_analysis_overwrite(state, subquery) ==
    [state EXCEPT
       !.content_analysis = Append(@, [subquery |-> subquery, analysis |-> "analysis",
                                       sources |-> <<SourceUrl>>]),
       !.findings = <<Section(subquery)>>]

\* process_query, lines 117-124
merge_analysis(state, subquery) ==
    [state EXCEPT
       !.content_analysis = Append(@, [subquery |-> subquery, analysis |-> "analysis",
                                       sources |-> <<SourceUrl>>]),
       !.findings = @ \o <<Section(subquery)>>]

\* process_query, lines 131-135
append_sources(state, search_results) ==
    [state EXCEPT !.sources =
        @ \o [i \in 1..Len(search_results) |-> to_dict(search_results[i])]]

\* A faulty handler: it lets the exception go.
process_query_reraise(state, subquery) ==
    [raised |-> TRUE, ret |-> FALSE, state |-> state]

\* process_query, lines 140-145: the outer except
process_query_failed(state, subquery) ==
    [raised |-> FALSE, ret |-> FALSE,
     state |-> [state EXCEPT !.messages = Append(@, subquery)]]

\* process_query from its first await on, lines 53-145
process_query(state, subquery, outcome) ==
    IF outcome = "search_raises" THEN process_query_failed(state, subquery)
    ELSE [raised |-> FALSE, ret |-> TRUE,
          state |-> append_sources(IF outcome = "analysed"
                                   THEN merge_analysis(state, subquery) ELSE state,
                                   SearchResultsFor(subquery))]

\* search_node, lines 163-166
pass_completed(state) ==
    [state EXCEPT !.current_depth = @ + 1, !.status = "Completed depth"]

\* smart_source_selection: the distinct URLs of the analyses; with at most
\* 25 of them (the case modelled) all are selected, without a LanguageModel
\* call.  Every analysis of the model cites SourceUrl.
smart_source_selection(state) ==
    [state EXCEPT !.status = "Selecting most valuable sources",
                  !.selected_sources = IF state.content_analysis > 0
                                       THEN <<SourceUrl>> ELSE <<>>]

\* format_citations with a registry in which the selected sources are
\* registered: one line per citation, no LanguageModel call.
format_citations(selected_sources) ==
    IF selected_sources = <<>> THEN <<>>
    ELSE Rep(<<Piece("citation line", 40)>>, Len(selected_sources))

\* format_citations_node
format_citations_node(state) ==
    LET citing == [state EXCEPT !.status = "Processing and formatting citations"] IN
    IF state.selected_sources = <<>> THEN citing
    ELSE [citing EXCEPT !.formatted_citations = format_citations(state.selected_sources)]

\* generate_title, extract_themes, generate_initial_report: the primary
\* prompt inside try, the simpler prompt inside the except clause and
\* guarded by nothing.
generate_title(attempts) == two_attempts(attempts)
extract_themes(attempts) == two_attempts(attempts)
generate_initial_report(attempts) == two_attempts(attempts)

\* generate_initial_report_node
generate_initial_report_node(state, title, themes, report) ==
    LET generating == [state EXCEPT !.status = "Generating initial report"] IN
    IF generate_title(title).raised THEN Raised(generating)
    ELSE IF extract_themes(themes).raised THEN Raised(generating)
    ELSE IF generate_initial_report(report).raised THEN Raised(generating)
    ELSE Returned([generating EXCEPT
             !.initial_report = generate_initial_report(report).content,
             !.formatted_citations = format_citations(state.selected_sources)])

\* enhance_report_node
enhance_report_node(state, sd) ==
    IF sd.requested
    THEN [state EXCEPT !.status = "Shutdown requested, skipping report enhancement"]
    ELSE [state EXCEPT !.enhanced_report = state.initial_report,
                       !.status = "Enhancement step skipped"]

\* expand_key_sections_node
expand_key_sections_node(state, sd) ==
    IF sd.requested
    THEN [state EXCEPT !.status = "Shutdown requested, skipping section expansion"]
    ELSE [state EXCEPT !.final_report = state.enhanced_report,
                       !.status = "Expansion step skipped"]

ReportMinLen == 1000

\* The re.sub clean-up of report_node: the artifact lines go.
cleanup(report) == SelectSeq(report, LAMBDA piece : piece.kind # "artifact")

TitleLine(title) == Piece("title line", 2 + TextLen(title) + 1)

\* The report under the generated title: an existing first title line is
\* replaced, otherwise f'# {report_title}\n\n' is put in front.
with_title(report, title) ==
    IF report # <<>> /\ Head(report).kind = "title line"
    THEN <<TitleLine(title)>> \o Tail(report)
    ELSE <<TitleLine(title), Piece("blank line", 1)>> \o report

\* report_node: the report of the earlier stages, regenerated when missing
\* or shorter than 1000 characters, cleaned and put under a newly generated
\* title.
report_node(state, regen_title, regen_themes, regen_report, final_title) ==
    LET finalizing == [state EXCEPT !.status = "Finalizing report"]
        existing == IF state.final_report # <<>> THEN state.final_report
                    ELSE IF state.enhanced_report # <<>> THEN state.enhanced_report
                    ELSE state.initial_report
        has_report == existing # <<>> /\ ~(TextLen(existing) < ReportMinLen)
        regenerated == generate_initial_report(regen_report).content
        regenerating == [finalizing EXCEPT !.initial_report = regenerated,
                                           !.enhanced_report = regenerated]
    IN IF ~has_report /\ generate_title(regen_title).raised THEN Raised(finalizing)
       ELSE IF ~has_report /\ extract_themes(regen_themes).raised THEN Raised(finalizing)
       ELSE IF ~has_report /\ generate_initial_report(regen_report).raised
            THEN Raised(finalizing)
       ELSE LET before == IF has_report THEN finalizing ELSE regenerating
                final_report == cleanup(IF has_report THEN existing ELSE regenerated)
            IN IF generate_title(final_title).raised THEN Raised(before)
               ELSE Returned([before EXCEPT
                        !.findings = with_title(final_report,
                                                generate_title(final_title).content),
                        !.status = "Complete"])


\* ------------------------------------------------- the research controller
\* build_graph, add_conditional_edges("search", should_continue, ...): a
\* faulty mapping that swaps the two targets.
conditional_edges_swapped(edge) ==
    IF edge = "continue" THEN "smart_source_selection" ELSE "reflect"

\* build_graph, add_conditional_edges("search", should_continue, ...)
conditional_edges(edge) ==
    IF edge = "continue" THEN "reflect" ELSE "smart_source_selection"

\* One run of ResearchGraph.research on the graph of graph/builder.py.
NoState == initial_state(<<>>, MinDepth, MinBreadth)
NoGuard == [evaluated |-> FALSE, edge |-> "end", requested |-> FALSE, counter |-> 0,
            current_depth |-> 0, depth |-> 0, iteration_count |-> 0]

\* research(): the ResearchResult built from the final state that
\* graph.ainvoke returns; research_stats has no "interrupted" key there.
NoResult == [returned |-> FALSE, summary |-> <<>>, depth |-> 0, interrupted |-> FALSE]
research_result(final_state) ==
    [returned |-> TRUE, summary |-> final_state.findings,
     depth |-> final_state.depth, interrupted |-> FALSE]

\* research(): the ResearchResult of the `except KeyboardInterrupt` branch,
\* built from the initial state.  agent_utils installs signal_handler for
\* SIGINT and SIGTERM when it is imported, so a signal sets the flag and
\* raises nothing: no step of the run enters this branch.
interrupted_result(state) ==
    [returned |-> TRUE, summary |-> state.findings \o <<Piece("interrupted note", 53)>>,
     depth |-> state.current_depth, interrupted |-> TRUE]

NoRun == [llm |-> "replies", analysed |-> FALSE, keeps |-> FALSE, passes |-> 0,
          guard |-> NoGuard, skipped |-> FALSE, result |-> NoResult,
          trace |-> <<>>, edges |-> <<>>]

NoCall == [op |-> "none"]
NoPass == [phase |-> "idle"]

\* ------------------------------------------------------------- actions
Init ==
    /\ registry = RegistryInit
    /\ manager = ManagerInit
    /\ calls = 0
    /\ last = NoCall
    /\ firstId = <<>>
    /\ regOrder = <<>>
    /\ clock = 0
    /\ searchCache = <<>>
    /\ scraperCache = <<>>
    /\ robots = RobotsInit
    /\ prevScrape = <<>>
    /\ written = <<>>
    /\ node = "idle"
    /\ agentState = NoState
    /\ shutdown = ShutdownInit
    /\ run = NoRun
    /\ semaphore = NoSemaphore
    /\ scrapers = <<>>
    /\ batches = <<>>
    /\ files = <<>>
    /\ searchPass = NoPass

\* registry.register_citation(url, context)
RegisterCitation(url, context) ==
    /\ calls < MaxCalls
    /\ LET r == register_citation(registry, url, context) IN
       /\ registry' = r.reg
       /\ last' = [op |-> "register_citation", url |-> url, context |-> context,
                   ret |-> r.ret, known |-> url \in DOMAIN firstId]
       /\ firstId' = IF url \in DOMAIN firstId THEN firstId
                     ELSE (url :> r.ret) @@ firstId
       /\ regOrder' = regOrder \o NewInOrder(Range(regOrder), <<url>>)
    /\ calls' = calls + 1
    /\ UNCHANGED <<agentVars, manager, cacheVars, poolVars, files>>

\* registry.bulk_register_sources(urls)
BulkRegisterSources(urls) ==
    /\ calls < MaxCalls
    /\ registry' = bulk_register_sources(registry, urls)
    /\ last' = [op |-> "bulk_register_sources", urls |-> urls]
    /\ LET fresh == NewInOrder(Range(regOrder), urls) IN
       /\ regOrder' = regOrder \o fresh
       /\ firstId' = [u \in DOMAIN firstId \cup Range(fresh) |->
                         IF u \in DOMAIN firstId THEN firstId[u]
                         ELSE registry'.url_to_id[u]]
    /\ calls' = calls + 1
    /\ UNCHANGED <<agentVars, manager, cacheVars, poolVars, files>>

\* Metadata passed to update_citation_metadata: title and date alone, the
\* dict of format_citations_node with a url, and one naming an id.
MetadataInputs ==
    {[title |-> "t", date |-> "n.d."], [title |-> "t", id |-> 3]}
        \cup {[title |-> "t", url |-> u, snippet |-> "", source |-> ""] : u \in URLS}
MetadataIds == 1..4

\* registry.update_citation_metadata(citation_id, metadata)
UpdateCitationMetadata(citation_id, metadata) ==
    /\ calls < MaxCalls
    /\ registry' = update_citation_metadata(registry, citation_id, metadata)
    /\ last' = [op |-> "update_citation_metadata", id |-> citation_id,
                metadata |-> metadata]
    /\ calls' = calls + 1
    /\ UNCHANGED <<agentVars, manager, firstId, regOrder, cacheVars, poolVars, files>>

\* manager.add_source(source_info)
AddSource(source_info) ==
    /\ calls < MaxCalls
    /\ \E now \in ClockReadings :
          manager' = add_source(manager, source_info, now)
    /\ last' = [op |-> "add_source", url |-> source_info.url, ret |-> source_info.url,
                known |-> DictHas(manager.sources, source_info.url)]
    /\ calls' = calls + 1
    /\ UNCHANGED <<agentVars, registry, firstId, regOrder, cacheVars, poolVars, files>>

\* manager.add_learning(learning)
AddLearning(learning) ==
    /\ calls < MaxCalls
    /\ \E now \in ClockReadings :
          LET r == add_learning(manager, learning, now) IN
          /\ manager' = r.mgr
          /\ last' = [op |-> "add_learning", learning |-> learning, ret |-> r.ret]
    /\ calls' = calls + 1
    /\ UNCHANGED <<agentVars, registry, firstId, regOrder, cacheVars, poolVars, files>>

\* manager.extract_learning_from_text(text, source_url)
ExtractLearning(text, source_url) ==
    /\ calls < MaxCalls
    /\ \E now \in ClockReadings :
          LET r == extract_learning_from_text(manager, text, source_url, <<>>, now) IN
          /\ manager' = r.mgr
          /\ last' = [op |-> "extract_learning_from_text", url |-> source_url,
                      ret |-> r.ret]
    /\ calls' = calls + 1
    /\ UNCHANGED <<agentVars, registry, firstId, regOrder, cacheVars, poolVars, files>>

\* Texts to validate: concatenations of at most MaxChunks of these pieces.
CHUNKS ==
    { <<"[", "1", "]">>, <<"[", "2", "]">>, <<"[", "3", "]">>, <<"[", "5", "]">>,
      <<"[", "1">>, <<"2", "]">>, <<"x">> }
ValidateTexts == {Flatten(ss) : ss \in UNION {[1..n -> CHUNKS] : n \in 0..MaxChunks}}

\* registry.validate_citations(text): a pure query, so the model does not
\* follow one validation by another.
ValidateCitations(text) ==
    /\ calls < MaxCalls
    /\ last.op # "validate_citations"
    /\ last' = [op |-> "validate_citations", text |-> text,
                ret |-> validate_citations(registry, text)]
    /\ calls' = calls + 1
    /\ UNCHANGED <<agentVars, ledgerVars, cacheVars, poolVars>>

Next ==
    \/ \E url \in URLS, context \in CONTEXTS : RegisterCitation(url, context)
    \/ \E urls \in BulkInputs : BulkRegisterSources(urls)
    \/ \E source_info \in SourceInputs : AddSource(source_info)
    \/ \E learning \in LearningInputs : AddLearning(learning)
    \/ \E text \in TextInputs, source_url \in ExtractUrls : ExtractLearning(text, source_url)

Spec == Init /\ [][Next]_vars

\* The calls of the citation registry alone.
NextRegistry ==
    \/ \E url \in URLS, context \in CONTEXTS : RegisterCitation(url, context)
    \/ \E urls \in BulkInputs : BulkRegisterSources(urls)
    \/ \E citation_id \in MetadataIds, metadata \in MetadataInputs :
          UpdateCitationMetadata(citation_id, metadata)

SpecRegistry == Init /\ [][NextRegistry]_vars


\* The registry alone: registrations without context, then validations.
NextValidate ==
    \/ \E url \in URLS : RegisterCitation(url, "")
    \/ \E text \in ValidateTexts : ValidateCitations(text)

SpecValidate == Init /\ [][NextValidate]_vars

\* ----------------------------------------- the ledger and its JSON files
\* Sources given to add_source here: one carries the page's text.
FileSourceInputs ==
    { SourceInfo("u1", "t1", 0),
      [SourceInfo("u2", "t2", 0) EXCEPT !.extracted_content = "body"],
      SourceInfo("u3", "", 2) }

\* Documents put on disk by something other than export_to_json.
GoodSourceDict == [url |-> "u1"]
GoodLearningDict == [content |-> cAB, category |-> "fact"]
HandMadeDocuments ==
    { NotJson,
      JsonArray,
      JsonObject([export_time |-> 0]),
      JsonObject([sources |-> <<[key |-> "u1", val |-> GoodSourceDict]>>,
                  learnings |-> <<[key |-> Md5(cAB), val |-> GoodLearningDict]>>,
                  learning_categories |-> <<"fact">>]),
      JsonObject([sources |-> <<[key |-> "u1", val |-> GoodSourceDict],
                                [key |-> "u2", val |-> [title |-> "t2"]],
                                [key |-> "u3", val |-> [url |-> "u3"]]>>,
                  learnings |-> <<[key |-> Md5(cAB), val |-> GoodLearningDict]>>]),
      JsonObject([sources |-> <<[key |-> "u1", val |-> GoodSourceDict]>>,
                  learnings |-> <<[key |-> Md5(cAB), val |-> GoodLearningDict],
                                  [key |-> <<"h1">>, val |-> [sources |-> <<"u1">>]]>>,
                  source_to_learnings |-> ("u1" :> <<Md5(cAB)>>)]) }

\* A file appears at a path of an existing directory.  exported and origin
\* are history: whether export_to_json wrote the file, and from which ledger.
PutFile(document) ==
    /\ calls < MaxCalls
    /\ files' = ("out.json" :> [kind |-> document.kind, data |-> document.data,
                              exported |-> FALSE, origin |-> ManagerInit]) @@ files
    /\ last' = [op |-> "put_file"]
    /\ calls' = calls + 1
    /\ UNCHANGED <<agentVars, registry, manager, firstId, regOrder, cacheVars, poolVars>>

\* manager.export_to_json(path)
ExportToJson(path) ==
    /\ calls < MaxCalls
    /\ \E now \in ClockReadings :
          LET r == export_to_json(manager, files, path, now) IN
          /\ files' = IF r.ret
                       THEN (path :> [kind |-> r.files[path].kind,
                                      data |-> r.files[path].data,
                                      exported |-> TRUE, origin |-> manager]) @@ files
                       ELSE files
          /\ last' = [op |-> "export_to_json", path |-> path, ret |-> r.ret]
    /\ calls' = calls + 1
    /\ UNCHANGED <<agentVars, registry, manager, firstId, regOrder, cacheVars, poolVars>>

\* manager.import_from_json(path)
ImportFromJson(path) ==
    /\ calls < MaxCalls
    /\ LET r == import_from_json(manager, files, path) IN
       /\ manager' = r.mgr
       /\ last' = [op |-> "import_from_json", path |-> path, ret |-> r.ret,
                   kind |-> IF path \in DOMAIN files THEN files[path].kind ELSE "missing",
                   exported |-> path \in DOMAIN files /\ files[path].exported]
    /\ calls' = calls + 1
    /\ UNCHANGED <<agentVars, registry, firstId, regOrder, cacheVars, poolVars, files>>

NextFiles ==
    \/ \E source_info \in FileSourceInputs : AddSource(source_info)
    \/ \E learning \in LearningInputs : AddLearning(learning)
    \/ \E document \in HandMadeDocuments : PutFile(document)
    \/ \E path \in PATHS : ExportToJson(path)
    \/ \E path \in PATHS : ImportFromJson(path)

SpecFiles == Init /\ [][NextFiles]_vars

\* ------------------------------------------------- the bibliography
ReportTexts ==
    { <<"x">>,
      <<"[", "1", "]">>,
      <<"[", "5", "]", " ", "[", "1", "]", "[", "5", "]">>,
      <<"[", "2", "]", "[", "1", "2", "]", "[", "x", "]">> }

\* Entries handed to format_bibliography by a caller.
BibEntries ==
    { [id |-> 1, title |-> "t1", url |-> "u1", accessed |-> "day-1"],
      [id |-> 2, title |-> "", url |-> "u2"],
      [id |-> 1],
      [title |-> "t2", url |-> "u3"] }
EntryLists == {<<>>} \cup {<<e>> : e \in BibEntries}
                 \cup {<<e, f>> : e \in BibEntries, f \in BibEntries}
STYLES == {"apa", "mla", "chicago"}

\* manager.get_citations_for_report(report_text)
GetCitationsForReport(report_text) ==
    /\ calls < MaxCalls
    /\ LET r == get_citations_for_report(manager, registry, report_text) IN
       /\ registry' = r.reg
       /\ last' = [op |-> "get_citations_for_report", text |-> report_text,
                   ret |-> r.bibliography]
    /\ calls' = calls + 1
    /\ UNCHANGED <<agentVars, manager, firstId, regOrder, cacheVars, poolVars, files>>

\* manager.format_bibliography(entries, style)
FormatBibliography(entries, style) ==
    /\ calls < MaxCalls
    /\ LET r == format_bibliography(entries, style) IN
       last' = [op |-> "format_bibliography", entries |-> entries, style |-> style,
                cited |-> last.op = "get_citations_for_report" /\ entries = last.ret,
                raised |-> r.raised, ret |-> r.text]
    /\ calls' = calls + 1
    /\ UNCHANGED <<agentVars, ledgerVars, cacheVars, poolVars>>

NextBibliography ==
    \/ \E source_info \in FileSourceInputs : AddSource(source_info)
    \/ \E report_text \in ReportTexts : GetCitationsForReport(report_text)
    \/ \E entries \in EntryLists, style \in STYLES : FormatBibliography(entries, style)
    \/ \E style \in STYLES :
          /\ last.op = "get_citations_for_report"
          /\ FormatBibliography(last.ret, style)

SpecBibliography == Init /\ [][NextBibliography]_vars

\* --------------------------------------------------------- cache actions
QUERIES == {<<"q">>}
\* One scrape's environment: whether the dynamic fetch is used and what each
\* fetch attempt gives.  <<x>> stands for x on every attempt.
RECURSIVE Attempts(_, _, _)
Attempts(first, rest, n) ==
    IF n = 0 THEN <<>> ELSE <<first>> \o Attempts(rest, rest, n - 1)
\* An attempt on which both paths give the same.
Both(outcome) == [static |-> outcome, dynamic |-> outcome]
FetchInputs ==
    { [dynamic |-> FALSE, attempts |-> Attempts(Both("ok"), Both("ok"), MaxRetries)],
      [dynamic |-> FALSE, attempts |-> Attempts(Both("raise"), Both("ok"), MaxRetries)],
      [dynamic |-> FALSE,
       attempts |-> Attempts(Both("http_error"), Both("none"), MaxRetries)],
      [dynamic |-> TRUE,
       attempts |-> Attempts(Both("none"), Both("raise"), MaxRetries)] }
\* The robots.txt setting of the scraper instance making the call:
\* "off" is respect_robots=False, the others what fetching robots.txt gives.
RobotsInputs == {"off", "deny"}
Absent == [present |-> FALSE]
Stored(key) ==
    IF key \in DOMAIN written
    THEN [present |-> TRUE, at |-> written[key].at, payload |-> written[key].payload]
    ELSE Absent

\* Time passes; "last" is the call made at the current instant, if any.
Tick ==
    /\ clock < MaxTime
    /\ clock' = clock + 1
    /\ last' = NoCall
    /\ UNCHANGED <<agentVars, ledgerVars, calls, searchCache, scraperCache, robots,
                   prevScrape, written, poolVars>>

\* cache.get(query, "duckduckgo") on the SearchCache
SearchCacheGet(query) ==
    /\ last' = [op |-> "SearchCache.get", at |-> clock,
                stored |-> Stored(<<"search", query>>),
                ret |-> SearchCache_get(searchCache, query, "duckduckgo", clock)]
    /\ UNCHANGED <<agentVars, ledgerVars, calls, cacheVars, poolVars>>

\* cache.get(url) on the ScraperCache
ScraperCacheGet(url) ==
    /\ last' = [op |-> "ScraperCache.get", at |-> clock,
                stored |-> Stored(<<"scraper", url>>),
                ret |-> ScraperCache_get(scraperCache, url, clock)]
    /\ UNCHANGED <<agentVars, ledgerVars, calls, cacheVars, poolVars>>

\* searcher._search_duckduckgo(query)
SearchDuckDuckGo(query, outcome) ==
    /\ LET r == search_duckduckgo(searchCache, query, outcome, clock) IN
       /\ searchCache' = r.cache
       /\ last' = [op |-> "_search_duckduckgo", at |-> clock,
                   stored |-> Stored(<<"search", query>>),
                   ret |-> r.ret, fromCache |-> r.fromCache, wrote |-> r.wrote,
                   obtained |-> outcome = "results"]
       /\ written' = IF r.wrote
                     THEN (<<"search", query>> :> [at |-> clock, payload |-> r.ret])
                          @@ written
                     ELSE written
    /\ UNCHANGED <<agentVars, ledgerVars, calls, clock, scraperCache, robots,
                   prevScrape, poolVars>>

\* A scrape_url result counts as failed when it carries an error or only
\* blank text.
scrape_failed(r) ==
    r.ret.error # NoError \/ \A i \in 1..Len(r.ret.text) : r.ret.text[i] \in WHITESPACE

\* The histories after a scrape_url call that returned r.
ScrapeHistories(url, force_refresh, r) ==
    /\ prevScrape' = (url :> IF ~scrape_failed(r) THEN "ok"
                             ELSE IF force_refresh THEN "failed_refresh"
                             ELSE "failed") @@ prevScrape
    /\ written' = IF r.wrote
                  THEN (<<"scraper", url>> :> [at |-> clock, payload |-> r.ret])
                       @@ written
                  ELSE written

\* scraper.scrape_url(url, dynamic, force_refresh)
ScrapeUrl(url, force_refresh, robots_input, fetch, text) ==
    /\ LET r == scrape_url(scraperCache, robots, url, fetch.dynamic, force_refresh,
                           robots_input # "off", robots_input, fetch.attempts,
                           text, clock)
           domain == <<url.scheme, url.netloc>>
           held == domain \in DOMAIN robots.parsers
       IN
       /\ scraperCache' = r.cache
       /\ robots' = r.robots
       /\ last' = [op |-> "scrape_url", at |-> clock, force_refresh |-> force_refresh,
                   url |-> url, robots_input |-> robots_input,
                   held |-> held,
                   held_verdict |-> IF held THEN robots.parsers[domain] ELSE "none",
                   held_since |-> IF held THEN robots.last_checked[domain] ELSE 0,
                   stored |-> Stored(<<"scraper", url>>),
                   ret |-> r.ret, fromCache |-> r.fromCache, fetches |-> r.fetches,
                   wrote |-> r.wrote, failed |-> scrape_failed(r),
                   raised |-> r.raised, cache_same |-> r.cache = scraperCache,
                   prev |-> IF url \in DOMAIN prevScrape THEN prevScrape[url]
                            ELSE "none"]
       /\ ScrapeHistories(url, force_refresh, r)
    /\ UNCHANGED <<agentVars, ledgerVars, calls, clock, searchCache, poolVars>>

NextCache ==
    \/ Tick
    \/ \E query \in QUERIES : SearchCacheGet(query)
    \/ \E url \in ScrapeUrls : ScraperCacheGet(url)
    \/ \E query \in QUERIES, outcome \in DdgOutcomes : SearchDuckDuckGo(query, outcome)
    \/ \E url \in ScrapeUrls, force_refresh \in BOOLEAN,
          robots_input \in RobotsInputs, fetch \in FetchInputs,
          text \in ExtractedTexts :
          ScrapeUrl(url, force_refresh, robots_input, fetch, text)

SpecCache == Init /\ [][NextCache]_vars

\* --------------------------------------------- scrape_url on any argument
MaxScrapes == 2
NoHostUrl == [scheme |-> "https", netloc |-> "", path |-> <<"/", "p">>]
FtpUrl == [scheme |-> "ftp", netloc |-> "a.org", path |-> <<"/", "p">>]
MsnUrl == [scheme |-> "https", netloc |-> "msn.com", path |-> <<"/", "p">>]
AnyUrls == {PageUrl, NoHostUrl, FtpUrl, MsnUrl}
AnyRobots == {"off", "allow", "deny", "error"}
AnyFetches ==
    { [dynamic |-> FALSE, attempts |-> Attempts(Both("ok"), Both("ok"), MaxRetries)],
      [dynamic |-> FALSE,
       attempts |-> Attempts(Both("deep_json"), Both("ok"), MaxRetries)],
      [dynamic |-> FALSE, attempts |-> Attempts(Both("none"), Both("ok"), MaxRetries)],
      [dynamic |-> FALSE,
       attempts |-> Attempts(Both("http_error"), Both("raise"), MaxRetries)],
      [dynamic |-> TRUE,
       attempts |-> Attempts([static |-> "ok", dynamic |-> "none"],
                             [static |-> "ok", dynamic |-> "raise"], MaxRetries)],
      [dynamic |-> TRUE, attempts |-> Attempts(Both("ok"), Both("ok"), MaxRetries)],
      [dynamic |-> TRUE,
       attempts |-> Attempts(Both("raise"), Both("http_error"), MaxRetries)] }
AnyTexts == {<<>>, <<"t">>}

\* scraper.scrape_url on any argument, at most MaxScrapes calls in a
\* behaviour; "last" keeps the arguments, what each fetch attempt gave, the
\* parser the RobotsChecker held before the call, and what the call did.
CountedScrapeUrl(url, force_refresh, robots_input, fetch, text) ==
    /\ calls < MaxScrapes
    /\ calls' = calls + 1
    /\ LET r == scrape_url(scraperCache, robots, url, fetch.dynamic, force_refresh,
                           robots_input # "off", robots_input, fetch.attempts,
                           text, clock)
           domain == <<url.scheme, url.netloc>>
           held == domain \in DOMAIN robots.parsers
       IN
       /\ scraperCache' = r.cache
       /\ robots' = r.robots
       /\ last' = [op |-> "scrape_url_any", at |-> clock,
                   force_refresh |-> force_refresh, url |-> url,
                   dynamic |-> fetch.dynamic, attempts |-> fetch.attempts,
                   text |-> text, robots_input |-> robots_input,
                   held |-> held,
                   held_verdict |-> IF held THEN robots.parsers[domain] ELSE "none",
                   held_since |-> IF held THEN robots.last_checked[domain] ELSE 0,
                   ret |-> r.ret, fromCache |-> r.fromCache, fetches |-> r.fetches,
                   wrote |-> r.wrote, raised |-> r.raised,
                   robots_fetched |-> r.robots_fetched, paths |-> r.paths,
                   cache_same |-> r.cache = scraperCache]
       /\ ScrapeHistories(url, force_refresh, r)
    /\ UNCHANGED <<agentVars, ledgerVars, clock, searchCache, poolVars>>

NextScrape ==
    \/ Tick
    \/ \E url \in AnyUrls, force_refresh \in BOOLEAN, robots_input \in AnyRobots,
          fetch \in AnyFetches, text \in AnyTexts :
          CountedScrapeUrl(url, force_refresh, robots_input, fetch, text)

SpecScrape == Init /\ [][NextScrape]_vars

\* ------------------------------------- scrape_urls calls on shared scrapers
ConcurrencyInputs == {1, 2}
SlashUrl == [scheme |-> "https", netloc |-> "a.org", path |-> <<"/", "p", "/">>]
OtherUrl == [scheme |-> "https", netloc |-> "a.org", path |-> <<"/", "q">>]
UrlLists == { <<PageUrl>>, <<PageUrl, SlashUrl>>, <<OtherUrl, PageUrl, OtherUrl>> }
\* What a task's scrape_url meets: robots.txt, the fetch attempts, the text.
TaskEnvironments ==
    { [robots |-> "allow", attempts |-> Attempts(Both("ok"), Both("ok"), MaxRetries),
       text |-> <<"t">>],
      [robots |-> "allow", attempts |-> Attempts(Both("none"), Both("raise"), MaxRetries),
       text |-> <<>>],
      [robots |-> "deny", attempts |-> Attempts(Both("ok"), Both("ok"), MaxRetries),
       text |-> <<"t">>],
      [robots |-> "allow",
       attempts |-> Attempts(Both("deep_json"), Both("deep_json"), MaxRetries),
       text |-> <<"t">>] }

\* WebScraper(max_concurrent=...)
NewScraper(max_concurrent) ==
    /\ Len(scrapers) < MaxScrapers
    /\ scrapers' = Append(scrapers, [max_concurrent |-> max_concurrent])
    /\ semaphore' = init_semaphore(semaphore, max_concurrent)
    /\ UNCHANGED <<batches, agentVars, ledgerVars, calls, last, cacheVars>>

\* scraper.scrape_urls(urls, dynamic) is called and reaches the gather
CallScrapeUrls(scraper, urls, dynamic) ==
    /\ scraper \in 1..Len(scrapers)
    /\ Len(batches) < MaxBatches
    /\ batches' = Append(batches, scrape_urls(scraper, urls, dynamic))
    /\ UNCHANGED <<semaphore, scrapers, agentVars, ledgerVars, calls, last, cacheVars>>

\* The tasks are created in the order of the calls and of unique_urls, and
\* asyncio.Semaphore wakes its waiters first come, first served.
FirstWaiting(b, i) ==
    \A c \in 1..Len(batches) : \A j \in 1..Len(batches[c].tasks) :
        batches[c].tasks[j].status = "waiting" => (c > b \/ (c = b /\ j >= i))

\* A task enters `async with self.semaphore` and its scrape_url runs up to
\* the first page fetch: the cache lookup and the robots.txt check.  When
\* these settle the call, the task ends at once.
TaskStarts(b, i, env) ==
    /\ b \in 1..Len(batches)
    /\ i \in 1..Len(batches[b].tasks)
    /\ batches[b].tasks[i].status = "waiting"
    /\ FirstWaiting(b, i)
    /\ semaphore.value > 0
    /\ LET r == scrape_url(scraperCache, robots, batches[b].tasks[i].url,
                           batches[b].dynamic, FALSE, TRUE, env.robots,
                           env.attempts, env.text, clock)
       IN
       /\ robots' = r.robots
       /\ IF r.fetches = 0
          THEN /\ batches' = [batches EXCEPT ![b].tasks[i] =
                                 [@ EXCEPT !.status = "done", !.ret = r.ret]]
               /\ UNCHANGED semaphore
          ELSE /\ batches' = [batches EXCEPT ![b].tasks[i] =
                                 [@ EXCEPT !.status = "fetching", !.ret = r.ret,
                                           !.wrote = r.wrote, !.raised = r.raised]]
               /\ semaphore' = [semaphore EXCEPT !.value = @ - 1]
    /\ UNCHANGED <<scrapers, agentVars, ledgerVars, calls, last, clock, searchCache,
                   scraperCache, prevScrape, written>>

\* A fetching task's scrape_url ends: a successful result is written to the
\* cache, the semaphore is released, and an exception leaving scrape_url
\* leaves the gather and scrape_urls too (the other tasks run on).
TaskEnds(b, i) ==
    /\ b \in 1..Len(batches)
    /\ i \in 1..Len(batches[b].tasks)
    /\ batches[b].tasks[i].status = "fetching"
    /\ LET task == batches[b].tasks[i] IN
       /\ scraperCache' = IF task.wrote
                          THEN ScraperCache_set(scraperCache, task.ret, clock)
                          ELSE scraperCache
       /\ batches' = [batches EXCEPT
                         ![b].tasks[i].status = "done",
                         ![b].state = IF task.raised /\ @ = "running"
                                      THEN "raised" ELSE @]
    /\ semaphore' = [semaphore EXCEPT !.value = @ + 1]
    /\ UNCHANGED <<scrapers, agentVars, ledgerVars, calls, last, clock, searchCache,
                   robots, prevScrape, written>>

\* asyncio.gather returns once every task has returned
Gather(b) ==
    /\ b \in 1..Len(batches)
    /\ batches[b].state = "running"
    /\ \A i \in 1..Len(batches[b].tasks) : batches[b].tasks[i].status = "done"
    /\ batches' = [batches EXCEPT ![b].state = "returned",
                                  ![b].ret = gather(batches[b].tasks)]
    /\ UNCHANGED <<semaphore, scrapers, agentVars, ledgerVars, calls, last, cacheVars>>

NextPool ==
    \/ \E max_concurrent \in ConcurrencyInputs : NewScraper(max_concurrent)
    \/ \E scraper \in 1..MaxScrapers, urls \in UrlLists, dynamic \in BOOLEAN :
          CallScrapeUrls(scraper, urls, dynamic)
    \/ \E b \in 1..MaxBatches, i \in 1..MaxBatchLen, env \in TaskEnvironments :
          TaskStarts(b, i, env)
    \/ \E b \in 1..MaxBatches, i \in 1..MaxBatchLen : TaskEnds(b, i)
    \/ \E b \in 1..MaxBatches : Gather(b)

SpecPool == Init /\ [][NextPool]_vars

\* ----------------------------------------------------- RobotsChecker alone
RobotsUrls == {PageUrl, NoHostUrl}

\* robots_checker.can_fetch(url, user_agent)
CanFetch(url, outcome) ==
    /\ LET r == can_fetch(robots, url, outcome, clock)
           domain == <<url.scheme, url.netloc>>
       IN
       /\ robots' = r.robots
       /\ last' = [op |-> "can_fetch", at |-> clock, url |-> url, outcome |-> outcome,
                   held |-> domain \in DOMAIN robots.parsers,
                   held_verdict |-> IF domain \in DOMAIN robots.parsers
                                    THEN robots.parsers[domain] ELSE "none",
                   held_since |-> IF domain \in DOMAIN robots.parsers
                                  THEN robots.last_checked[domain] ELSE 0,
                   fetched |-> r.fetched, allowed |-> r.allowed]
    /\ UNCHANGED <<agentVars, ledgerVars, calls, clock, searchCache, scraperCache,
                   prevScrape, written, poolVars>>

NextRobots ==
    \/ Tick
    \/ \E url \in RobotsUrls, outcome \in RobotsOutcomes : CanFetch(url, outcome)

SpecRobots == Init /\ [][NextRobots]_vars


\* ---------------------------------------------------- engine call actions
SearchQueries == {<<"q">>, <<"q", "?">>}
ResultCounts == {1, 2}

\* The key an engine function uses for its cache entry.
cache_key(engine, query) ==
    IF engine = "google" THEN humanize_query(query) ELSE query

EngineStored(engine, query) == Stored(<<engine, cache_key(engine, query)>>)

\* One engine function was called: record the call and the cache write.
EngineCalled(engine, query, r, clean) ==
    /\ calls < MaxCalls
    /\ calls' = calls + 1
    /\ searchCache' = r.cache
    /\ last' = [op |-> "engine", engine |-> engine, query |-> query, at |-> clock,
                stored |-> EngineStored(engine, query),
                ret |-> r.ret, fromCache |-> r.fromCache, wrote |-> r.wrote,
                network |-> r.network, clean |-> clean]
    /\ written' = IF r.wrote
                  THEN (<<engine, cache_key(engine, query)>> :>
                           [at |-> clock, payload |-> r.ret]) @@ written
                  ELSE written
    /\ UNCHANGED <<agentVars, ledgerVars, clock, scraperCache, robots, prevScrape,
                   poolVars>>

\* searcher._search_duckduckgo(query)
CallDuckDuckGo(query, outcome) ==
    EngineCalled("duckduckgo", query,
                 search_duckduckgo(searchCache, query, outcome, clock),
                 outcome \in {"results", "empty"})

\* searcher._async_google_search(query, num_results)
CallGoogle(query, num_results, outcome) ==
    EngineCalled("google", query,
                 async_google_search(searchCache, query, num_results, outcome, clock),
                 outcome \in {"results", "empty"})

\* searcher._search_wikipedia(query, max_results)
CallWikipedia(query, max_results, outcome) ==
    EngineCalled("wikipedia", query,
                 search_wikipedia(searchCache, query, max_results, outcome, clock),
                 outcome \in {"results", "empty"})

\* searcher._search_arxiv(query, max_results)
CallArxiv(query, max_results, outcome) ==
    EngineCalled("arxiv", query,
                 search_arxiv(searchCache, query, max_results, outcome, clock),
                 outcome \in {"results", "empty"})

NextEngines ==
    \/ Tick
    \/ \E query \in QUERIES, outcome \in DdgOutcomes : CallDuckDuckGo(query, outcome)
    \/ \E query \in SearchQueries, num_results \in ResultCounts,
          outcome \in GoogleOutcomes : CallGoogle(query, num_results, outcome)
    \/ \E query \in QUERIES, max_results \in ResultCounts,
          outcome \in WikipediaOutcomes : CallWikipedia(query, max_results, outcome)
    \/ \E query \in QUERIES, max_results \in ResultCounts,
          outcome \in ArxivOutcomes : CallArxiv(query, max_results, outcome)

SpecEngines == Init /\ [][NextEngines]_vars


\* ---------------------------------------------------------- search actions
EngineLists ==
    { <<>>, <<"duckduckgo">>, <<"google", "duckduckgo">>, <<"wikipedia", "arxiv">>,
      <<"duckduckgo", "google", "wikipedia", "arxiv">>, <<"bing">> }
\* What each engine task of a search can do.
TaskOutcomes(engine) ==
    CASE engine = "duckduckgo" ->
            {"results", "raise_fallback_ok", "raise_fallback_raise", "crash"}
      [] engine = "google" -> {"results", "raise", "crash"}
      [] engine = "wikipedia" -> {"results", "raise", "crash"}
      [] OTHER -> {"results", "raise", "crash"}
Requested(engines) == Range(engines) \cap Range(ENGINES)
Environments(engines) ==
    {env \in [Requested(engines) -> UNION {TaskOutcomes(e) : e \in Range(ENGINES)}] :
        \A e \in Requested(engines) : env[e] \in TaskOutcomes(e)}

\* searcher.search(query, engines)
Search(query, engines, env) ==
    /\ LET r == search(searchCache, query, engines, env, clock) IN
       /\ searchCache' = r.cache
       /\ last' = [op |-> "search", query |-> query, engines |-> engines,
                   raised |-> r.raised, ret |-> r.ret, parts |-> r.parts,
                   failed |-> {e \in Requested(engines) :
                                  \/ env[e] = "crash"
                                  \/ /\ env[e] \in {"raise", "raise_fallback_raise"}
                                     /\ \E i \in 1..Len(r.parts) :
                                           /\ r.parts[i].engine = e
                                           /\ ~r.parts[i].fromCache}]
    /\ UNCHANGED <<agentVars, ledgerVars, calls, clock, scraperCache, robots,
                   prevScrape, written, poolVars>>

\* The lists merge_results is tried on, and each of them twice over.
MergeItems ==
    { SearchResult("t1", "https://a.org/p", "s1", "DuckDuckGo"),
      SearchResult("g1", "https://a.org/p", "s3", "Google"),
      SearchResult("g2", "https://b.org/p", "s4", "Google"),
      SearchResult("w1", "https://w.org/1", "s5", "Wikipedia") }
MergeLists == UNION {[1..n -> MergeItems] : n \in 0..MaxMergeLen}
MergeInputs == MergeLists \cup {L \o L : L \in MergeLists}

\* UnifiedSearcher.merge_results(results, strategy), called on a fresh list
MergeResults(results, strategy) ==
    /\ last.op = "none"
    /\ last' = [op |-> "merge_results", results |-> results, strategy |-> strategy,
                ret |-> merge_results(results, strategy)]
    /\ UNCHANGED <<agentVars, ledgerVars, calls, cacheVars, poolVars>>

NextSearch ==
    \E query \in QUERIES, engines \in EngineLists :
       \E env \in Environments(engines) : Search(query, engines, env)

SpecSearch == Init /\ [][NextSearch]_vars

\* merge_results alone, a pure function: one call after another.
NextMerge ==
    \E results \in MergeInputs, strategy \in {"alternate", "source_priority"} :
       MergeResults(results, strategy)

SpecMerge == Init /\ [][NextMerge]_vars

\* ------------------------------------------------------ controller actions
ResearchQueries == {<<"a", "i">>, <<>>}
DepthInputs == {0, 2, 3, 30}
BreadthInputs == {0, 2}

\* What the LanguageModel does in the loop of one run: every primary prompt
\* is answered usefully, every primary prompt is answered with nothing
\* usable, every primary prompt raises and the simpler one is answered, or
\* every call raises.
LlmBehaviours == {"replies", "unusable", "raises_once", "raises"}

NumberedQueries ==
    <<"1", ".", " ", "a", " ", "b", "\n", "-", " ", "c", " ", "d", "\n",
      "*", " ", "e", " ", "f">>
ChatterOnly ==
    <<"H", "e", "r", "e", " ", "a", "r", "e", ":", " ", "x", "\n",
      "Q", "u", "e", "r", "y", " ", "a", " ", "b">>
SomeText == <<Piece("text", 50)>>

\* the two attempts of a query-generation step under a behaviour
query_attempts(llm) ==
    CASE llm = "replies" -> <<Reply(NumberedQueries), Raise>>
      [] llm = "unusable" -> <<Reply(<<>>), Raise>>
      [] llm = "raises_once" -> <<Raise, Reply(ChatterOnly)>>
      [] llm = "raises" -> <<Raise, Raise>>

\* the two attempts of a plan or reflection step under a behaviour
text_attempts(llm) ==
    CASE llm = "replies" -> <<Reply(SomeText), Raise>>
      [] llm = "unusable" -> <<Reply(<<>>), Raise>>
      [] llm = "raises_once" -> <<Raise, Reply(<<>>)>>
      [] llm = "raises" -> <<Raise, Raise>>

\* research(): the initial state is handed to graph.ainvoke.  `keeps` says
\* whether the graph library carries what the edge function writes into its
\* argument over to the next evaluation.
Research(query, depth, breadth, llm, analysed, keeps) ==
    /\ node = "idle"
    /\ ~shutdown.exited
    /\ node' = "initialize"
    /\ agentState' = initial_state(query, depth, breadth)
    /\ run' = [llm |-> llm, analysed |-> analysed, keeps |-> keeps, passes |-> 0,
               guard |-> NoGuard, skipped |-> FALSE, result |-> NoResult,
               trace |-> <<>>, edges |-> <<>>]
    /\ UNCHANGED <<shutdown, ledgerVars, calls, last, cacheVars, poolVars, searchPass>>

\* SIGINT or SIGTERM arrives
Signal ==
    /\ node \notin {"END", "raised"}
    /\ ~shutdown.exited
    /\ shutdown' = signal_handler(shutdown)
    /\ UNCHANGED <<node, agentState, run, ledgerVars, calls, last, cacheVars, poolVars, searchPass>>

\* the clarification prompt before the run is interrupted
InputInterrupted ==
    /\ node = "idle"
    /\ ~shutdown.requested
    /\ shutdown' = input_interrupted(shutdown)
    /\ UNCHANGED <<node, agentState, run, ledgerVars, calls, last, cacheVars, poolVars, searchPass>>

InitializeNode ==
    /\ node = "initialize"
    /\ ~shutdown.exited
    /\ agentState' = initialize_node(agentState, text_attempts(run.llm))
    /\ node' = "generate_queries"
    /\ run' = [run EXCEPT !.trace = Append(@, "initialize")]
    /\ UNCHANGED <<shutdown, ledgerVars, calls, last, cacheVars, poolVars, searchPass>>

GenerateQueriesNode ==
    /\ node = "generate_queries"
    /\ ~shutdown.exited
    /\ agentState' = generate_queries_node(agentState, query_attempts(run.llm)[1],
                                           query_attempts(run.llm)[2])
    /\ node' = "search"
    /\ run' = [run EXCEPT !.trace = Append(@, "generate_queries")]
    /\ UNCHANGED <<shutdown, ledgerVars, calls, last, cacheVars, poolVars, searchPass>>

SearchNode ==
    /\ node = "search"
    /\ ~shutdown.exited
    /\ LET r == search_node(agentState, run.analysed) IN
       /\ agentState' = r.state
       /\ node' = IF r.raised THEN "raised" ELSE "should_continue"
       /\ run' = [run EXCEPT !.passes = @ + 1, !.trace = Append(@, "search")]
    /\ UNCHANGED <<shutdown, ledgerVars, calls, last, cacheVars, poolVars, searchPass>>

\* the conditional edge after search
ShouldContinue ==
    /\ node = "should_continue"
    /\ ~shutdown.exited
    /\ LET r == should_continue(agentState, shutdown) IN
       /\ agentState' = IF run.keeps THEN r.state ELSE agentState
       /\ node' = conditional_edges(r.edge)
       /\ run' = [run EXCEPT !.edges = Append(@, r.edge), !.guard =
                     [evaluated |-> TRUE, edge |-> r.edge,
                      requested |-> shutdown.requested, counter |-> shutdown.counter,
                      current_depth |-> agentState.current_depth,
                      depth |-> agentState.depth,
                      iteration_count |-> r.state.iteration_count]]
    /\ UNCHANGED <<shutdown, ledgerVars, calls, last, cacheVars, poolVars, searchPass>>

ReflectNode ==
    /\ node = "reflect"
    /\ ~shutdown.exited
    /\ agentState' = reflect_node(agentState, text_attempts(run.llm))
    /\ node' = "generate_queries"
    /\ run' = [run EXCEPT !.trace = Append(@, "reflect")]
    /\ UNCHANGED <<shutdown, ledgerVars, calls, last, cacheVars, poolVars, searchPass>>

SmartSourceSelection ==
    /\ node = "smart_source_selection"
    /\ ~shutdown.exited
    /\ agentState' = smart_source_selection(agentState)
    /\ node' = "format_citations"
    /\ run' = [run EXCEPT !.trace = Append(@, "smart_source_selection")]
    /\ UNCHANGED <<shutdown, ledgerVars, calls, last, cacheVars, poolVars, searchPass>>

FormatCitationsNode ==
    /\ node = "format_citations"
    /\ ~shutdown.exited
    /\ agentState' = format_citations_node(agentState)
    /\ node' = "generate_initial_report"
    /\ run' = [run EXCEPT !.trace = Append(@, "format_citations")]
    /\ UNCHANGED <<shutdown, ledgerVars, calls, last, cacheVars, poolVars, searchPass>>

\* What the LanguageModel does in one synthesis stage (title, themes, report;
\* two attempts each): the primary prompts are answered, with a long report
\* or an empty one; every primary prompt raises and the simpler one is
\* answered; or both attempts of one of the three steps raise.
TitleReply == Reply(<<Piece("title", 30)>>)
LongReport == <<Piece("title line", 20), Piece("artifact", 30), Piece("body", 1000)>>
ShortReport == <<Piece("body", 999)>>
TitleAttempts == { <<TitleReply, Raise>>, <<Raise, Reply(<<>>)>>, <<Raise, Raise>> }
SynthesisAttempts ==
    { [title |-> <<TitleReply, Raise>>, themes |-> <<Reply(SomeText), Raise>>,
       report |-> <<Reply(LongReport), Raise>>],
      [title |-> <<TitleReply, Raise>>, themes |-> <<Reply(SomeText), Raise>>,
       report |-> <<Reply(<<>>), Raise>>],
      [title |-> <<Raise, Reply(<<>>)>>, themes |-> <<Raise, Reply(<<>>)>>,
       report |-> <<Raise, Reply(ShortReport)>>],
      [title |-> <<Raise, Raise>>, themes |-> <<Reply(SomeText), Raise>>,
       report |-> <<Reply(LongReport), Raise>>],
      [title |-> <<TitleReply, Raise>>, themes |-> <<Raise, Raise>>,
       report |-> <<Reply(LongReport), Raise>>],
      [title |-> <<TitleReply, Raise>>, themes |-> <<Reply(SomeText), Raise>>,
       report |-> <<Raise, Raise>>] }

GenerateInitialReportNode(title, themes, report) ==
    /\ node = "generate_initial_report"
    /\ ~shutdown.exited
    /\ LET r == generate_initial_report_node(agentState, title, themes, report) IN
       /\ agentState' = r.state
       /\ node' = IF r.raised THEN "raised" ELSE "enhance_report"
    /\ run' = [run EXCEPT !.trace = Append(@, "generate_initial_report")]
    /\ UNCHANGED <<shutdown, ledgerVars, calls, last, cacheVars, poolVars, searchPass>>

EnhanceReportNode ==
    /\ node = "enhance_report"
    /\ ~shutdown.exited
    /\ agentState' = enhance_report_node(agentState, shutdown)
    /\ node' = "expand_key_sections"
    /\ run' = [run EXCEPT !.skipped = @ \/ shutdown.requested,
                          !.trace = Append(@, "enhance_report")]
    /\ UNCHANGED <<shutdown, ledgerVars, calls, last, cacheVars, poolVars, searchPass>>

ExpandKeySectionsNode ==
    /\ node = "expand_key_sections"
    /\ ~shutdown.exited
    /\ agentState' = expand_key_sections_node(agentState, shutdown)
    /\ node' = "report"
    /\ run' = [run EXCEPT !.skipped = @ \/ shutdown.requested,
                          !.trace = Append(@, "expand_key_sections")]
    /\ UNCHANGED <<shutdown, ledgerVars, calls, last, cacheVars, poolVars, searchPass>>

ReportNode(regen_title, regen_themes, regen_report, final_title) ==
    /\ node = "report"
    /\ ~shutdown.exited
    /\ LET r == report_node(agentState, regen_title, regen_themes, regen_report,
                            final_title) IN
       /\ agentState' = r.state
       /\ node' = IF r.raised THEN "raised" ELSE "END"
       /\ run' = [run EXCEPT !.trace = Append(@, "report"), !.result =
                     IF r.raised THEN @ ELSE research_result(r.state)]
    /\ UNCHANGED <<shutdown, ledgerVars, calls, last, cacheVars, poolVars, searchPass>>

\* the nodes and the edge of the graph
GraphStep ==
    \/ InitializeNode
    \/ GenerateQueriesNode
    \/ SearchNode
    \/ ShouldContinue
    \/ ReflectNode
    \/ SmartSourceSelection
    \/ FormatCitationsNode
    \/ \E llm \in SynthesisAttempts :
          GenerateInitialReportNode(llm.title, llm.themes, llm.report)
    \/ EnhanceReportNode
    \/ ExpandKeySectionsNode
    \/ \E llm \in SynthesisAttempts, final_title \in TitleAttempts :
          ReportNode(llm.title, llm.themes, llm.report, final_title)

StartResearch ==
    \E query \in ResearchQueries, depth \in DepthInputs, breadth \in BreadthInputs,
       llm \in LlmBehaviours, analysed \in BOOLEAN, keeps \in BOOLEAN :
       Research(query, depth, breadth, llm, analysed, keeps)

NextController ==
    \/ StartResearch
    \/ Signal
    \/ InputInterrupted
    \/ GraphStep

SpecController == Init /\ [][NextController]_vars

\* A run that no signal interrupts, in which the node that was entered
\* returns or raises and the graph moves on (every awaited call ends).
WorkingNodes ==
    {"initialize", "generate_queries", "search", "should_continue", "reflect",
     "smart_source_selection", "format_citations", "generate_initial_report",
     "enhance_report", "expand_key_sections", "report"}
NodeEnds ==
    /\ node \in WorkingNodes
    /\ node' \in (WorkingNodes \cup {"END", "raised"}) \ {node}

NextRun ==
    \/ StartResearch
    \/ GraphStep

SpecRun == Init /\ [][NextRun]_vars /\ WF_node(NodeEnds)



\* generate_queries_node alone: one call on a state of the loop.
QueryReplies ==
    { <<>>, NumberedQueries, ChatterOnly, <<"a">>, <<" ", "\n", "2", ".", " ", "g", " ", "h">> }
QueryCalls == {Raise} \cup {Reply(content) : content \in QueryReplies}
BreadthValues == {1, 2, 3}
EarlierQueries == {<<>>, << <<"o", " ", "p">> >>}

GenerateQueries(query, breadth, earlier, primary, simplified) ==
    /\ last.op = "none"
    /\ LET before == [initial_state(query, MaxDepth, breadth) EXCEPT !.subqueries = earlier]
           after == generate_queries_node(before, primary, simplified)
       IN last' = [op |-> "generate_queries", query |-> query, breadth |-> breadth,
                   primary |-> primary, simplified |-> simplified,
                   before |-> before.subqueries, after |-> after.subqueries,
                   status |-> after.status,
                   rest |-> [after EXCEPT !.subqueries = <<>>, !.status = ""]
                            = [before EXCEPT !.subqueries = <<>>, !.status = ""]]
    /\ UNCHANGED <<agentVars, ledgerVars, calls, cacheVars, poolVars>>

NextQueries ==
    \E query \in ResearchQueries, breadth \in BreadthValues, earlier \in EarlierQueries,
       primary \in QueryCalls, simplified \in QueryCalls :
       GenerateQueries(query, breadth, earlier, primary, simplified)

SpecQueries == Init /\ [][NextQueries]_vars

\* ----------------------------------------- search passes, task by task
MaxPasses == 2      \* search passes made in a behaviour
PassBreadths == {1, 2, 4}
OtherQueries == <<"g", " ", "h", "\n", "c", " ", "d">>
PassReplies ==
    { <<Reply(NumberedQueries), Raise>>, <<Reply(OtherQueries), Raise>>,
      <<Reply(<<>>), Raise>>, <<Raise, Raise>> }

\* The environments of a run: what happens to each sub-query.
PassEnvironments == {"analysed", "search_raises", "analysis_raises", "one_fails", "mixed"}
Outcome(env, subquery) ==
    CASE env \in QueryOutcomes -> env
      [] env = "one_fails" ->
            IF subquery \in {<<"a", " ", "b">>, <<"a", "i">>} THEN "search_raises"
            ELSE "analysed"
      [] env = "mixed" ->
            IF subquery = <<"c", " ", "d">> THEN "search_raises"
            ELSE IF subquery = <<"a", " ", "b">> THEN "analysis_raises"
            ELSE "analysed"

\* research(): the part of the initial state that the passes use
pass_state(query, breadth) ==
    [query |-> query, breadth |-> Max(MinBreadth, Min(MaxBreadth, breadth)),
     current_depth |-> 0, findings |-> <<>>, sources |-> <<>>, subqueries |-> <<>>,
     content_analysis |-> <<>>, messages |-> <<>>, status |-> "Starting"]

StartPasses(query, breadth, env) ==
    /\ searchPass.phase = "idle"
    /\ searchPass' = [phase |-> "generate_queries", state |-> pass_state(query, breadth),
                      env |-> env, passes |-> 0, tasks |-> <<>>, pc |-> <<>>,
                      first |-> 1, batch_size |-> 0, processed_queries |-> {},
                      before |-> pass_state(query, breadth),
                      generated |-> <<>>, dispatched |-> <<>>]
    /\ UNCHANGED <<node, agentState, shutdown, run, ledgerVars, calls, last, cacheVars,
                   poolVars>>

\* generate_queries_node, as one step
PassGenerateQueries(primary, simplified) ==
    /\ searchPass.phase = "generate_queries"
    /\ searchPass.passes < MaxPasses
    /\ LET after == generate_queries_node(searchPass.state, primary, simplified) IN
       searchPass' = [searchPass EXCEPT
           !.state = after,
           !.generated = Append(@, SubSeq(after.subqueries,
                                          Len(searchPass.state.subqueries) + 1,
                                          Len(after.subqueries))),
           !.phase = "search"]
    /\ UNCHANGED <<node, agentState, shutdown, run, ledgerVars, calls, last, cacheVars,
                   poolVars>>

\* search_node, lines 17-160: up to the first gather
SearchStarts ==
    /\ searchPass.phase = "search"
    /\ LET searching == [searchPass.state EXCEPT
                            !.status = "Searching and analyzing content"]
           tasks == search_tasks(searching)
           batch_size == Min(MaxBatch, Len(tasks))
       IN searchPass' = [searchPass EXCEPT
              !.state = searching,
              !.before = searching,
              !.tasks = tasks,
              !.pc = [i \in 1..Len(tasks) |-> "created"],
              !.first = 1,
              !.batch_size = batch_size,
              !.processed_queries = {},
              !.dispatched = Append(@, <<>>),
              !.phase = IF batch_size = 0 THEN "raised" ELSE "gather"]
    /\ UNCHANGED <<node, agentState, shutdown, run, ledgerVars, calls, last, cacheVars,
                   poolVars>>

\* The tasks of the batch that asyncio.gather is waiting for.
CurrentBatch ==
    {i \in 1..Len(searchPass.tasks) :
        searchPass.first <= i /\ i < searchPass.first + searchPass.batch_size}

\* process_query, lines 45-53: a task runs up to its first await; the tasks
\* of a batch start in the order gather was given them.
ProcessQueryStarts(i) ==
    /\ searchPass.phase = "gather"
    /\ i \in CurrentBatch
    /\ searchPass.pc[i] = "created"
    /\ \A j \in CurrentBatch : j < i => searchPass.pc[j] # "created"
    /\ LET subquery == searchPass.tasks[i] IN
       searchPass' =
          IF subquery \in searchPass.processed_queries
          THEN [searchPass EXCEPT !.pc[i] = "done"]
          ELSE [searchPass EXCEPT
                  !.pc[i] = "awaiting",
                  !.processed_queries = @ \cup {subquery},
                  !.dispatched[Len(searchPass.dispatched)] = Append(@, subquery)]
    /\ UNCHANGED <<node, agentState, shutdown, run, ledgerVars, calls, last, cacheVars,
                   poolVars>>

\* process_query, lines 53-145: the awaited calls of a task end, in any
\* order among the tasks, and the task runs to its return.
ProcessQueryEnds(i) ==
    /\ searchPass.phase = "gather"
    /\ i \in CurrentBatch
    /\ searchPass.pc[i] = "awaiting"
    /\ LET r == process_query(searchPass.state, searchPass.tasks[i],
                              Outcome(searchPass.env, searchPass.tasks[i]))
       IN searchPass' = [searchPass EXCEPT
              !.state = r.state,
              !.pc[i] = IF r.ret THEN "done" ELSE "failed",
              !.phase = IF r.raised THEN "raised" ELSE @]
    /\ UNCHANGED <<node, agentState, shutdown, run, ledgerVars, calls, last, cacheVars,
                   poolVars>>

\* search_node, lines 158-170: gather returns; the next batch, or the end
\* of the pass.
GatherReturns ==
    /\ searchPass.phase = "gather"
    /\ \A i \in CurrentBatch : searchPass.pc[i] \in {"done", "failed"}
    /\ searchPass' =
          IF searchPass.first + searchPass.batch_size <= Len(searchPass.tasks)
          THEN [searchPass EXCEPT !.first = @ + searchPass.batch_size]
          ELSE [searchPass EXCEPT !.state = pass_completed(@),
                                  !.passes = @ + 1,
                                  !.phase = "generate_queries"]
    /\ UNCHANGED <<node, agentState, shutdown, run, ledgerVars, calls, last, cacheVars,
                   poolVars>>

NextPasses ==
    \/ \E query \in ResearchQueries, breadth \in PassBreadths, env \in PassEnvironments :
          StartPasses(query, breadth, env)
    \/ \E attempts \in PassReplies : PassGenerateQueries(attempts[1], attempts[2])
    \/ SearchStarts
    \/ \E i \in 1..(MaxBreadth + 1) : ProcessQueryStarts(i)
    \/ \E i \in 1..(MaxBreadth + 1) : ProcessQueryEnds(i)
    \/ GatherReturns

SpecPasses == Init /\ [][NextPasses]_vars

\* ================================================================ claims

\* C1: register_citation is idempotent per URL: a call for a URL that was
\* registered before returns the id its first registration returned, and
\* leaves next_id, citations, id_to_url and url_to_id as they were.
C1_RegisterIdempotent ==
    [][ (last'.op = "register_citation" /\ calls' = calls + 1 /\ last'.known)
          => /\ last'.ret = firstId[last'.url]
             /\ registry'.next_id = registry.next_id
             /\ registry'.citations = registry.citations
             /\ registry'.id_to_url = registry.id_to_url
             /\ registry'.url_to_id = registry.url_to_id ]_vars

\* A repeated registration, with a context, after another URL was registered.
C1_Witness ==
    /\ last.op = "register_citation"
    /\ last.known
    /\ last.context # ""
    /\ Cardinality(DOMAIN firstId) >= 2
    /\ last.ret = 1

\* C2: ids are allocated sequentially from 1: the k-th distinct URL registered
\* has id k, the registered ids are exactly 1..n, and get_all_citation_urls
\* lists the URLs in order of first registration.
C2_SequentialIds ==
    LET n == Len(regOrder) IN
    /\ DOMAIN registry.citations = 1..n
    /\ DOMAIN registry.id_to_url = 1..n
    /\ \A k \in 1..n :
          /\ firstId[regOrder[k]] = k
          /\ registry.url_to_id[regOrder[k]] = k
          /\ registry.id_to_url[k] = regOrder[k]
    /\ get_all_citation_urls(registry) = regOrder

\* Three distinct URLs registered, the last two by a bulk call whose input
\* repeats a URL.
C2_Witness ==
    /\ last.op = "bulk_register_sources"
    /\ last.urls = <<"u2", "u2", "u3">>
    /\ regOrder = <<"u1", "u2", "u3">>

\* C3: each URL has at most one SourceInfo in manager.sources and at most
\* one citation id in the registry.
C3_OnePerUrl ==
    \A u \in URLS :
        /\ Cardinality({i \in 1..Len(manager.sources) :
                           manager.sources[i].key = u \/ manager.sources[i].val.url = u}) <= 1
        /\ Cardinality({i \in DOMAIN registry.id_to_url : registry.id_to_url[i] = u}) <= 1
        /\ Cardinality({i \in DOMAIN registry.citations : registry.citations[i].url = u}) <= 1

\* A URL re-added with another title, in a ledger that also holds a learning,
\* while its registry holds a citation.
C3_Witness ==
    /\ last.op = "add_source"
    /\ last.known
    /\ \E i \in 1..Len(manager.sources) :
          manager.sources[i].key = last.url /\ manager.sources[i].val.title = "t2"
    /\ registry.next_id > 1

\* C4: add_learning of a content whose normalization equals that of a stored
\* learning leaves total_learnings unchanged, returns the stored entry's hash
\* id, and makes its sources the union of the old and the incoming sources.
C4_LearningDedup ==
    [][ (last'.op = "add_learning" /\ calls' = calls + 1)
          => \A i \in 1..Len(manager.learnings) :
                normalize_text(manager.learnings[i].val.content)
                    = normalize_text(last'.learning.content)
                => /\ total_learnings(manager') = total_learnings(manager)
                   /\ last'.ret = manager.learnings[i].key
                   /\ last'.ret = manager.learnings[i].val.hash_id
                   /\ DictHas(manager'.learnings, last'.ret)
                   /\ Range(DictGet(manager'.learnings, last'.ret).sources)
                        = Range(manager.learnings[i].val.sources)
                            \cup Range(last'.learning.sources) ]_vars

\* "a b" is stored with source u1; " A\n B!" with sources u2, u2 was merged in.
C4_Witness ==
    /\ last.op = "add_learning"
    /\ last.learning.content = cABp
    /\ last.ret = Md5(cAB)
    /\ total_learnings(manager) = 1
    /\ DictGet(manager.learnings, Md5(cAB)).sources = <<"u1", "u2">>

\* C5: no two stored learnings are near-identical: no two entries have equal
\* normalized content or a character-set Jaccard similarity above 0.8.
C5_NoNearDuplicates ==
    \A i, j \in 1..Len(manager.learnings) :
        i < j =>
          LET a == normalize_text(manager.learnings[i].val.content)
              b == normalize_text(manager.learnings[j].val.content)
          IN /\ a # b
             /\ ~AboveThreshold(calculate_similarity(a, b))
             /\ manager.learnings[i].key # manager.learnings[j].key

\* "abcd" and "abcde" (similarity exactly 0.8) are both stored, and "abcdef"
\* (similarity 5/6 with "abcde") was merged into "abcde".
C5_Witness ==
    /\ last.op = "add_learning"
    /\ last.learning.content = c6
    /\ last.ret = Md5(c5)
    /\ total_learnings(manager) = 2
    /\ DictHas(manager.learnings, Md5(c4))

\* C6: merging is monotonic: every stored learning stays stored under its
\* hash id, and its sources and source_quotes lists only grow.
C6_MergeMonotonic ==
    [][ \A i \in 1..Len(manager.learnings) :
           LET k == manager.learnings[i].key
               old == manager.learnings[i].val
           IN /\ DictHas(manager'.learnings, k)
              /\ IsPrefix(old.sources, DictGet(manager'.learnings, k).sources)
              /\ IsPrefix(old.source_quotes, DictGet(manager'.learnings, k).source_quotes)
      ]_vars

\* The integers n that occur as [n] in text: a "[", one or more digits, a "]".
Cited(text) ==
    {ToInt(SubSeq(text, i + 1, j - 1)) :
        <<i, j>> \in {p \in (1..Len(text)) \X (1..Len(text)) :
                         /\ p[1] + 1 < p[2]
                         /\ text[p[1]] = "[" /\ text[p[2]] = "]"
                         /\ \A k \in (p[1] + 1)..(p[2] - 1) : text[k] \in DIGITS}}

\* The ids handed out so far, by the history of the calls.
RegisteredIds == {firstId[u] : u \in DOMAIN firstId}

C8_UsedAreRegistered ==
    (/\ last.op = "validate_citations"
     /\ Cited(last.text) \cap RegisteredIds # {}
     /\ Cited(last.text) \ RegisteredIds # {})
    => /\ last.ret.valid = FALSE
       /\ (Cited(last.text) \ RegisteredIds) \subseteq last.ret.invalid_citations
       /\ last.ret.used_citations = Cited(last.text) \cap RegisteredIds

\* What a get at time last.at must answer, given the latest write of the key
\* (last.stored) and the cache's time to live.
GetAnswersByTtl(ttl) ==
    /\ last.ret.hit <=> (last.stored.present /\ last.at - last.stored.at <= ttl)
    /\ last.ret.hit => last.ret.value = last.stored.payload
    /\ (last.stored.present /\ last.at = last.stored.at + ttl - 1) => last.ret.hit
    /\ (last.stored.present /\ last.at = last.stored.at + ttl + 1) => ~last.ret.hit
    /\ ~last.ret.hit => last.ret = [hit |-> FALSE]

\* C9: SearchCache.get and ScraperCache.get return the stored payload exactly
\* while now - timestamp <= ttl, timestamp being the time of the key's latest
\* write: a hit at timestamp + ttl - 1, a miss at timestamp + ttl + 1.  An
\* expired entry is answered like an absent one, and the callers
\* (_search_duckduckgo, scrape_url without force_refresh) serve from the cache
\* exactly when the entry is present and unexpired.
C9_CacheTtlBoundary ==
    /\ last.op = "SearchCache.get" => GetAnswersByTtl(SearchTtl)
    /\ last.op = "ScraperCache.get" => GetAnswersByTtl(ScraperTtl)
    /\ last.op = "_search_duckduckgo" =>
          (last.fromCache <=>
              (last.stored.present /\ last.at - last.stored.at <= SearchTtl))
    /\ last.op = "scrape_url" =>
          (last.fromCache <=>
              (/\ ~last.force_refresh
               /\ last.stored.present
               /\ last.at - last.stored.at <= ScraperTtl))

\* A ScraperCache.get made ttl + 1 ticks after the entry was written missed.
C9_Witness ==
    /\ last.op = "ScraperCache.get"
    /\ last.stored.present
    /\ last.at = last.stored.at + ScraperTtl + 1
    /\ ~last.ret.hit

NonBlank(text) == \E i \in 1..Len(text) : text[i] \notin WHITESPACE

\* Only successful results are ever in the caches, written or served.
OnlySuccessCached ==
    /\ \A u \in DOMAIN scraperCache :
          /\ scraperCache[u].content.error = NoError
          /\ NonBlank(scraperCache[u].content.text)
    /\ \A k \in DOMAIN searchCache :
          /\ searchCache[k].results # <<>>
          /\ searchCache[k].results = PrimaryResults
    /\ last.op = "scrape_url" =>
          /\ last.wrote <=> (~last.fromCache /\ last.ret.error = NoError
                                /\ NonBlank(last.ret.text))
          /\ ~last.wrote => (scraperCache = <<>> \/ last.stored.present)
          /\ last.fromCache => (last.ret.error = NoError /\ NonBlank(last.ret.text))
    /\ last.op = "_search_duckduckgo" =>
          /\ last.wrote <=> (~last.fromCache /\ last.obtained)
          /\ last.wrote => last.ret # <<>>
          /\ last.fromCache => last.ret = PrimaryResults

EntryAfterCall == searchCache[<<cache_key(last.engine, last.query), last.engine>>]

\* Write-through and hit, for the engine call in "last" (clean tells whether
\* the engine's library call completed without raising).
WriteThroughAndHit(whenever) ==
    /\ (~last.fromCache /\ last.ret # <<>> /\ whenever) =>
          /\ last.wrote
          /\ <<cache_key(last.engine, last.query), last.engine>> \in DOMAIN searchCache
          /\ EntryAfterCall.timestamp = last.at
          /\ EntryAfterCall.results = last.ret
    /\ (last.stored.present /\ last.at - last.stored.at <= SearchTtl) =>
          /\ last.fromCache
          /\ last.network = 0
          /\ last.ret = last.stored.payload
          /\ ~last.wrote

PartsOfWorking ==
    Flatten([i \in 1..Len(last.parts) |->
                IF last.parts[i].engine \in last.failed THEN <<>>
                ELSE last.parts[i].ret])

\* C12: for every list of requested engines and every subset of them that
\* fails, search returns a list and does not raise; a failing engine
\* contributes no result, the results of the other engines are returned (up
\* to the max_results cut), and when every requested engine fails the
\* result is the empty list.
C12_EngineFailureIsolation ==
    last.op = "search" =>
       /\ ~last.raised
       /\ \A i \in 1..Len(last.parts) :
             last.parts[i].engine \in last.failed => last.parts[i].ret = <<>>
       /\ Range(last.ret) \subseteq Range(PartsOfWorking)
       /\ Len(last.ret) = IF Len(PartsOfWorking) < MaxResults
                          THEN Len(PartsOfWorking) ELSE MaxResults
       /\ last.failed = Requested(last.engines) => last.ret = <<>>

\* C13: the list returned by search or merge_results holds no two results
\* with the same URL.
C13_NoDuplicateUrls ==
    last.op \in {"search", "merge_results"} =>
       \A i, j \in 1..Len(last.ret) :
          last.ret[i].url = last.ret[j].url => i = j

Urls(results) == {results[i].url : i \in 1..Len(results)}

\* C14: for every list L, merging L concatenated with itself with the
\* "alternate" strategy gives a list whose set of URLs is the set of URLs
\* of L.
C14_MergeIdempotentUrls ==
    (last.op = "merge_results" /\ last.strategy = "alternate") =>
       \A L \in MergeLists :
          last.results = L \o L => Urls(last.ret) = Urls(L)

\* A list of three results from two sources, two of them with one URL, was
\* merged with itself.
C14_Witness ==
    /\ last.op = "merge_results"
    /\ last.strategy = "alternate"
    /\ \E L \in MergeLists :
          /\ last.results = L \o L
          /\ Len(L) = 3
          /\ Cardinality(Urls(L)) = 2
          /\ Cardinality({L[i].source : i \in 1..Len(L)}) = 2
    /\ Len(last.ret) = 6

\* C15: controller termination.  For every depth d >= 1, every non-empty
\* query and every LanguageModel behaviour, a run that no signal interrupts
\* reaches the terminal node with status 'Complete' after at most d+1
\* passes through Search.
C15_TerminatesComplete ==
    (node = "initialize" /\ agentState.query # <<>>)
        ~> (node = "END" /\ agentState.status = "Complete"
            /\ run.passes <= agentState.depth + 1)

\* What the loop does keep: a run makes at most depth passes through
\* Search, and a run that ends at the terminal node has status 'Complete'.
PassesWithinDepth ==
    /\ run.passes <= agentState.depth
    /\ node = "END" => agentState.status = "Complete"

\* C16: the guard after Search returns 'continue' iff current_depth < depth
\* and no cancellation has been requested and the iteration counter has not
\* reached the ceiling; so after a first cancellation signal the next guard
\* evaluation takes the 'end' edge and no further Search pass is started.
C16_GuardContinueIff ==
    run.guard.evaluated =>
        (run.guard.edge = "continue"
            <=> /\ run.guard.current_depth < run.guard.depth
                /\ ~run.guard.requested
                /\ run.guard.iteration_count < IterationCeiling)

\* C17: whenever two or more cancellation signals have been received, the
\* guard after Search takes the 'end' edge, whatever current_depth, depth and
\* the iteration counter are.
C17_SecondSignalEnds ==
    (run.guard.evaluated /\ run.guard.counter >= 2) => run.guard.edge = "end"

\* The guard ended a run after two signals with depth left to search.
C17_Witness ==
    /\ run.guard.evaluated
    /\ run.guard.counter >= 2
    /\ run.guard.current_depth < run.guard.depth
    /\ run.guard.iteration_count < IterationCeiling
    /\ run.guard.edge = "end"
    /\ node = "smart_source_selection"

\* C18: in every run the number of passes through Search never exceeds the
\* ceiling of 25, for every requested depth and breadth, every LanguageModel
\* behaviour and every timing of cancellation signals.
C18_PassesWithinCeiling == run.passes <= IterationCeiling

\* A run asked for more depth than allowed ended after MaxDepth passes.
C18_Witness ==
    /\ node = "END"
    /\ agentState.depth = MaxDepth
    /\ run.passes = MaxDepth
    /\ run.guard.edge = "end"

\* the sub-queries a generate_queries_node call appended
Appended == SubSeq(last.after, Len(last.before) + 1, Len(last.after))

\* C19: for a non-empty research query and every LanguageModel behaviour
\* (either call raising, or a reply from which no query can be parsed)
\* generate_queries_node completes and appends at least one and at most
\* breadth sub-queries to subqueries; when both attempts raise, what it
\* appends are the defaults derived from the query.
C19_QueryFallbacks ==
    (last.op = "generate_queries" /\ last.query # <<>>) =>
        /\ IsPrefix(last.before, last.after)
        /\ Len(Appended) >= 1
        /\ Len(Appended) <= last.breadth
        /\ last.rest
        /\ (last.primary.raised /\ last.simplified.raised) =>
               /\ Len(Appended) = Min(Len(DefaultSuffixes), last.breadth)
               /\ \A i \in 1..Len(Appended) :
                      Appended[i] = last.query \o DefaultSuffixes[i]

\* Both attempts raised and two defaults were appended to earlier queries.
C19_Witness ==
    /\ last.op = "generate_queries"
    /\ last.query # <<>>
    /\ last.primary.raised /\ last.simplified.raised
    /\ last.breadth = 2
    /\ last.before # <<>>
    /\ Len(last.after) = Len(last.before) + 2

\* The original query was used: the primary attempt raised and nothing
\* could be parsed from the simpler reply.
QueryItselfAppended ==
    /\ last.op = "generate_queries"
    /\ last.primary.raised /\ ~last.simplified.raised
    /\ Appended = <<last.query>>
    /\ last.query # <<>>

\* C20: every run that reaches the terminal state has status 'Complete' and
\* a non-empty findings string, and no run raises because LanguageModel
\* calls fail: when the calls of the synthesis stages (title, themes,
\* initial report, finalize) fail, fallback text is returned.
C20_CompleteNeverRaises ==
    /\ node = "END" => /\ agentState.status = "Complete"
                       /\ TextLen(agentState.findings) > 0
    /\ agentState.query # <<>> => node # "raised"

\* What the synthesis stages do keep: at the terminal node the status is
\* 'Complete' and findings holds at least the title line.
TerminalFindings ==
    node = "END" => /\ agentState.status = "Complete"
                    /\ TextLen(agentState.findings) >= 3
                    /\ Head(agentState.findings).kind = "title line"

\* C21: a run that ended early because a cancellation request was observed
\* (the guard took the end edge on a request while current_depth was below
\* depth, or the enhancement or expansion stage was skipped on the shutdown
\* flag) returns a result marked interrupted.
EndedEarly ==
    \/ /\ run.guard.evaluated
       /\ run.guard.edge = "end"
       /\ run.guard.requested
       /\ run.guard.current_depth < run.guard.depth
    \/ run.skipped
C21_EarlyEndInterrupted ==
    (run.result.returned /\ EndedEarly) => run.result.interrupted

\* Every result that a run returns is unmarked, whatever was observed.
ResultsUnmarked == run.result.returned => ~run.result.interrupted

\* The scrape_url call in "last" was made by a scraper that respects
\* robots.txt, for a URL that the rules consulted disallow: those of the
\* parser held, when it is younger than the ttl, else those just fetched.
RulesDisallow ==
    /\ last.robots_input # "off"
    /\ last.url.netloc # ""
    /\ IF last.held /\ last.at - last.held_since < RobotsTtl
       THEN last.held_verdict = "deny"
       ELSE last.robots_input = "deny"

\* C25: with respect_robots enabled and no cached entry served, when the
\* robots.txt rules disallow the URL, scrape_url returns an error-tagged
\* ScrapedContent without any page fetch (static or dynamic, first or
\* retried) and without writing to the cache.
C25_RobotsDenyShortCircuits ==
    (last.op \in {"scrape_url", "scrape_url_any"} /\ ~last.fromCache /\ RulesDisallow)
        => /\ ~last.raised
           /\ last.ret.error # NoError
           /\ last.ret.text = <<>>
           /\ last.fetches = 0
           /\ ~last.wrote
           /\ last.cache_same

\* A forced refresh of a cached URL was stopped by the rules of a parser
\* that was held: nothing was fetched and the cache entry was left alone.
C25_Witness ==
    /\ last.op = "scrape_url"
    /\ last.force_refresh
    /\ last.stored.present
    /\ RulesDisallow
    /\ last.held
    /\ last.fetches = 0
    /\ last.ret.error # NoError
    /\ last.url \in DOMAIN scraperCache

\* C26: whenever fetching robots.txt for a domain fails (exception, timeout)
\* or is answered with a status other than 200, can_fetch answers "allowed",
\* whether or not an expired parser of the domain is held.
C26_RobotsFailOpen ==
    (last.op = "can_fetch" /\ last.fetched /\ last.outcome \in {"missing", "error"})
        => last.allowed

\* The fetch failed while an expired parser that disallows the URL was held.
C26_Witness ==
    /\ last.op = "can_fetch"
    /\ last.outcome = "error"
    /\ last.held
    /\ last.held_verdict = "deny"
    /\ last.at - last.held_since >= RobotsTtl
    /\ last.fetched
    /\ last.allowed

\* robots.txt is requested exactly when the URL has a host and no parser
\* younger than the ttl is held for its domain.
RobotsFetchedWhenStale ==
    last.op = "can_fetch" =>
        (last.fetched <=> (/\ last.url.netloc # ""
                           /\ ~(last.held /\ last.at - last.held_since < RobotsTtl)))

\* A URL whose scheme is not http or https, or that has no host.
Malformed(url) == url.scheme \notin {"http", "https"} \/ url.netloc = ""

\* C27: a malformed URL passed to scrape_url is rejected at once with an
\* error-tagged ScrapedContent: neither robots.txt nor the page is requested
\* for it.
C27_MalformedRejected ==
    (last.op = "scrape_url_any" /\ Malformed(last.url))
        => /\ ~last.raised
           /\ last.ret.error # NoError
           /\ ~last.robots_fetched
           /\ last.fetches = 0

\* What the code does for a URL without a host: a scraper that respects
\* robots.txt returns the "denied by robots.txt" error without any request,
\* unless the cache holds a result for the URL.
NoHostDeniedWhenRespecting ==
    (/\ last.op = "scrape_url_any"
     /\ last.url.netloc = ""
     /\ last.robots_input # "off"
     /\ ~last.fromCache)
        => /\ last.ret.error # NoError
           /\ ~last.robots_fetched
           /\ last.fetches = 0

\* The page that attempt n of the call in "last" gives on the path taken.
AttemptPage(n) == get_page(last.url, last.dynamic, last.attempts[n])

\* C28: when scrape_url is called with dynamic=True and the rendering path
\* times out or raises on every attempt, the static path is tried for the
\* URL, so that a URL whose static fetch succeeds (and whose page has text)
\* gives a successful result.
C28_DynamicFallsBack ==
    (/\ last.op = "scrape_url_any"
     /\ last.dynamic
     /\ last.fetches > 0
     /\ \A n \in 1..MaxRetries : /\ last.attempts[n].dynamic \in {"none", "raise"}
                                 /\ last.attempts[n].static = "ok"
     /\ NonBlank(last.text))
        => /\ \E n \in 1..Len(last.paths) : last.paths[n] = "static"
           /\ ~last.raised
           /\ is_successful(last.ret)

\* What the code does: a dynamic scrape takes the static path only for a
\* problematic domain, and then on every attempt.
StaticOnlyForProblematic ==
    (last.op = "scrape_url_any" /\ last.dynamic) =>
        \A n \in 1..Len(last.paths) :
            last.paths[n] = "static" <=> last.url.netloc \in PROBLEMATIC_DOMAINS

\* The retry loop of the call in "last": at most max_retries attempts, none
\* after the first that gives html, and an error result when none does.
RetriesBounded ==
    last.op = "scrape_url_any" =>
        /\ last.fetches <= MaxRetries
        /\ \A n \in 1..last.fetches : n < last.fetches => AttemptPage(n).html = ""
        /\ (last.fetches > 0 /\ AttemptPage(last.fetches).html = "")
              => (last.fetches = MaxRetries /\ ~last.raised /\ last.ret.error # NoError)

\* C29: scrape_url makes at most max_retries page-fetch attempts, stops at
\* the first attempt that gives content, returns an error-tagged
\* ScrapedContent when no attempt does, and never raises, whatever the
\* network and the extraction do.
C29_BoundedRetriesNoRaise ==
    /\ RetriesBounded
    /\ last.op = "scrape_url_any" => ~last.raised

\* The tasks that are fetching: <<batch, task>>.
Fetching ==
    { bi \in (1..Len(batches)) \X (1..MaxBatchLen) :
        /\ bi[2] <= Len(batches[bi[1]].tasks)
        /\ batches[bi[1]].tasks[bi[2]].status = "fetching" }

\* C22: for a WebScraper configured with max_concurrent = N, no more than N
\* of its page fetches are in flight at any instant, however many URLs are
\* queued and however many scrapers and scrape_urls calls there are.
C22_BoundedInFlight ==
    \A s \in 1..Len(scrapers) :
        Cardinality({bi \in Fetching : batches[bi[1]].scraper = s})
            <= scrapers[s].max_concurrent

\* What the code bounds: the fetches in flight of all scrapers together, by
\* the max_concurrent of the scraper that was made first.
InFlightWithinFirstLimit ==
    /\ Cardinality(Fetching) <= semaphore.limit
    /\ Cardinality(Fetching) + semaphore.value = semaphore.limit
    /\ scrapers # <<>> => semaphore.limit = scrapers[1].max_concurrent

\* C23: scrape_urls(urls) returns one ScrapedContent for each input URL, in
\* input order: output[i] is the result (an error result when the fetch
\* failed) for urls[i].
C23_BatchKeepsInputOrder ==
    \A b \in 1..Len(batches) :
        batches[b].state = "returned" =>
            /\ Len(batches[b].ret) = Len(batches[b].urls)
            /\ \A i \in 1..Len(batches[b].urls) :
                  batches[b].ret[i].url = batches[b].urls[i]

\* What the code returns: one result for each URL of unique_urls, in the
\* order of first occurrence.
ReturnsUniqueInOrder ==
    \A b \in 1..Len(batches) :
        batches[b].state = "returned" =>
            LET unique == unique_urls(batches[b].urls) IN
            /\ Len(batches[b].ret) = Len(unique)
            /\ \A i \in 1..Len(unique) : batches[b].ret[i].url = unique[i]

\* C24: no URL is being fetched by two fetch operations at the same time (a
\* request for a URL that is in flight is turned down with an error result
\* and starts no second fetch).
C24_NoDoubleFetch ==
    \A bi \in Fetching, cj \in Fetching :
        batches[bi[1]].tasks[bi[2]].url = batches[cj[1]].tasks[cj[2]].url => bi = cj

\* What the code excludes: two fetches of one URL within one scrape_urls call.
NoDoubleFetchInOneBatch ==
    \A bi \in Fetching, cj \in Fetching :
        (/\ bi[1] = cj[1]
         /\ batches[bi[1]].tasks[bi[2]].url = batches[cj[1]].tasks[cj[2]].url) => bi = cj

\* The step is an add_learning call that merged the incoming learning into
\* an existing entry.
MergingStep ==
    /\ last'.op = "add_learning"
    /\ calls' = calls + 1
    /\ find_similar_learning(manager.learnings, last'.learning.content) # None

\* C30: when add_learning merges an incoming learning into an existing
\* entry, the entry's confidence becomes the arithmetic mean of its previous
\* confidence and the incoming one, for every pair of confidences in [0,1].
C30_MergedConfidenceIsMean ==
    [][ MergingStep =>
          DictGet(manager'.learnings, last'.ret).confidence
              = MeanConfidence(DictGet(manager.learnings, last'.ret).confidence,
                               last'.learning.confidence)
      ]_vars

\* What the code does: the mean, unless the incoming confidence is 1.0, in
\* which case the entry's confidence stays as it was.
MeanUnlessIncomingOne ==
    [][ MergingStep =>
          DictGet(manager'.learnings, last'.ret).confidence
              = IF last'.learning.confidence = One
                THEN DictGet(manager.learnings, last'.ret).confidence
                ELSE MeanConfidence(DictGet(manager.learnings, last'.ret).confidence,
                                    last'.learning.confidence)
      ]_vars

\* ---------------------------------------------------------------- C31
\* Two ledgers hold the same sources (with every field), learnings,
\* source-to-learnings map and categories, whatever the order of their maps.
AsMap(d) == [k \in DictKeys(d) |-> DictGet(d, k)]
SameLedger(a, b) ==
    /\ AsMap(a.sources) = AsMap(b.sources)
    /\ AsMap(a.learnings) = AsMap(b.learnings)
    /\ a.source_to_learnings = b.source_to_learnings
    /\ a.learning_categories = b.learning_categories
ImportsAnExport ==
    /\ last'.op = "import_from_json"
    /\ last'.exported

\* C31: importing the document that export_to_json produced yields the
\* ledger that was exported: its sources with all their fields, its
\* learnings, its source-to-learnings map and its categories, up to the
\* order of the maps.
C31_ExportImportRoundTrip ==
    [][ImportsAnExport => SameLedger(manager', files[last'.path].origin)]_vars

\* What the code does keep: the import returns True and everything but the
\* extracted_content of the sources comes back; extracted_content is "".
WithoutContent(sources) ==
    [k \in DictKeys(sources) |-> [DictGet(sources, k) EXCEPT !.extracted_content = ""]]
RoundTripButExtractedContent ==
    [][ImportsAnExport =>
         /\ last'.ret
         /\ AsMap(manager'.sources) = WithoutContent(files[last'.path].origin.sources)
         /\ SameLedger([manager' EXCEPT !.sources = <<>>],
                       [files[last'.path].origin EXCEPT !.sources = <<>>])]_vars

\* ---------------------------------------------------------------- C40
\* C40: an import_from_json that returns False leaves sources, learnings,
\* source_to_learnings and categories exactly as they were.
C40_FailedImportAtomic ==
    [][last'.op = "import_from_json" /\ ~last'.ret => manager' = manager]_vars

\* What the code does keep: a file that cannot be read or is not JSON leaves
\* the ledger as it was; every other failure leaves the records converted
\* before the faulty one, and no source-to-learnings map or category.
FailedImportBeforeOrAfterClear ==
    [][last'.op = "import_from_json" /\ ~last'.ret =>
         IF last'.kind \in {"missing", "text"} THEN manager' = manager
         ELSE /\ manager'.source_to_learnings = <<>>
              /\ manager'.learning_categories = {}
              /\ \A i \in 1..Len(manager'.sources) :
                    manager'.sources[i].key = files[last'.path].data.sources[i].key]_vars

\* ---------------------------------------------------------------- C32
\* The number of entries that a bibliography text renders: each rendered
\* entry ends with a blank line.
RenderedEntries(text) == Len(SelectSeq(text, LAMBDA piece : piece = "\n\n"))
Formatted == last.op = "format_bibliography"

\* C32: format_bibliography returns text without raising for every list of
\* entries (entries with missing or empty fields included) and every style
\* keyword, and renders every entry; a cited id with no known source is
\* rendered as a marked placeholder entry.
C32_BibliographyAlwaysRenders ==
    Formatted =>
        /\ ~last.raised
        /\ RenderedEntries(last.ret) = Len(last.entries)
        /\ last.cited =>
              \A i \in 1..Len(last.entries) :
                 last.entries[i].source_type = "unknown" =>
                     /\ InList("Unknown Source", last.ret)
                     /\ InList(UnknownSourceUrl(last.entries[i].id), last.ret)

\* What the code does keep: entries that all carry an id are all rendered,
\* in every style, whatever else they lack; the entries made from a report
\* always carry one, and an id without a source is rendered as a placeholder.
RendersEntriesWithId ==
    Formatted /\ (\A i \in 1..Len(last.entries) : "id" \in DOMAIN last.entries[i]) =>
        /\ ~last.raised
        /\ last.entries # <<>> => RenderedEntries(last.ret) = Len(last.entries)
        /\ \A i \in 1..Len(last.entries) : InList(ToString(last.entries[i].id), last.ret)
CitedEntriesRender ==
    Formatted /\ last.cited =>
        /\ ~last.raised
        /\ \A i \in 1..Len(last.entries) :
              /\ InList("[", last.ret) /\ InList(ToString(last.entries[i].id), last.ret)
              /\ InList(last.entries[i].title, last.ret)
              /\ InList(last.entries[i].url, last.ret)
RaisesWithoutId ==
    Formatted /\ last.raised => \E i \in 1..Len(last.entries) : "id" \notin DOMAIN last.entries[i]

\* ---------------------------------------------------------------- C33
\* get_learnings_from_source / get_sources_for_learning read these two.
ListedUnderSource(mgr, h, u) ==
    u \in DOMAIN mgr.source_to_learnings /\ InList(h, mgr.source_to_learnings[u])
NamesSource(mgr, h, u) ==
    DictHas(mgr.learnings, h) /\ InList(u, DictGet(mgr.learnings, h).sources)
LedgerHashes(mgr) ==
    DictKeys(mgr.learnings)
        \cup UNION {Range(mgr.source_to_learnings[u]) : u \in DOMAIN mgr.source_to_learnings}
LedgerUrls(mgr) ==
    DOMAIN mgr.source_to_learnings
        \cup UNION {Range(mgr.learnings[i].val.sources) : i \in 1..Len(mgr.learnings)}

\* C33: after any sequence of add_source, add_learning and
\* extract_learning_from_text calls, hash h is listed in
\* source_to_learnings[u] iff u is listed in learnings[h].sources, and every
\* such u has a SourceInfo in sources.
C33_ProvenanceBidirectional ==
    \A h \in LedgerHashes(manager), u \in LedgerUrls(manager) :
        /\ ListedUnderSource(manager, h, u) <=> NamesSource(manager, h, u)
        /\ NamesSource(manager, h, u) => DictHas(manager.sources, u)

\* What the code does keep: source_to_learnings has a list for exactly the
\* URLs that have a SourceInfo, and a learning stored under a fresh hash is
\* listed under each of its sources that was registered before the call.
MapKeysAreSources ==
    DOMAIN manager.source_to_learnings = DictKeys(manager.sources)
NewLearningLinkedToKnownSources ==
    [][/\ last'.op = "add_learning"
       /\ ~DictHas(manager.learnings, last'.ret)
       => \A u \in Range(last'.learning.sources) :
             DictHas(manager.sources, u) => ListedUnderSource(manager', last'.ret, u)]_vars

\* ---------------------------------------------------------------- C34
\* run.trace lists the nodes in the order they executed and run.edges the
\* guard's answers, one per completed Search pass.
Positions(name) == {i \in 1..Len(run.trace) : run.trace[i] = name}
SearchesUpTo(i) == Cardinality({j \in 1..i : run.trace[j] = "search"})
FinalChain ==
    <<"smart_source_selection", "format_citations", "generate_initial_report",
      "enhance_report", "expand_key_sections", "report">>
GuardEnded == \E k \in 1..Len(run.edges) : run.edges[k] = "end"
\* The nodes executed after the Search pass whose guard returned 'end'.
AfterEnd ==
    LET k == CHOOSE j \in 1..Len(run.edges) : run.edges[j] = "end"
        p == CHOOSE i \in Positions("search") : SearchesUpTo(i) = k
    IN SubSeq(run.trace, p + 1, Len(run.trace))

\* C34: Initialize executes once and first; every Search pass is directly
\* preceded by GenerateQueries; Reflect executes only directly after a
\* Search whose guard returned 'continue'; once the guard has returned 'end'
\* the six closing nodes execute once each in the order of FinalChain and
\* Search never executes again; status 'Complete' is set by the final
\* report node only.
C34_NodeOrdering ==
    /\ run.trace # <<>> =>
          run.trace[1] = "initialize" /\ Cardinality(Positions("initialize")) = 1
    /\ \A i \in Positions("search") : i > 1 /\ run.trace[i - 1] = "generate_queries"
    /\ \A i \in Positions("reflect") :
          /\ i > 1 /\ run.trace[i - 1] = "search"
          /\ run.edges[SearchesUpTo(i)] = "continue"
    /\ ~GuardEnded => \A i \in 1..Len(run.trace) : ~InList(run.trace[i], FinalChain)
    /\ GuardEnded =>
          /\ IsPrefix(AfterEnd, FinalChain)
          /\ node = "END" => AfterEnd = FinalChain
    /\ agentState.status = "Complete" =>
          run.trace # <<>> /\ run.trace[Len(run.trace)] = "report"

\* A finished run that went round the loop and then through the closing
\* nodes.
C34_Witness ==
    /\ node = "END"
    /\ agentState.status = "Complete"
    /\ Positions("reflect") # {}
    /\ AfterEnd = FinalChain

\* ---------------------------------------------------------------- C35
\* A step in which search_node returned.
SearchPassCompletes == node = "search" /\ node' = "should_continue"

\* C35: current_depth starts at 0, never decreases, grows by exactly 1 in
\* each completed Search pass (also when no sub-query of the pass gave an
\* analysis) and in no other step, and never exceeds depth, with or without
\* cancellation signals.
C35_DepthCountsPasses ==
    /\ [](/\ agentState.current_depth <= agentState.depth
          /\ node \in {"idle", "initialize"} => agentState.current_depth = 0)
    /\ [][/\ agentState'.current_depth >= agentState.current_depth
          /\ SearchPassCompletes =>
                agentState'.current_depth = agentState.current_depth + 1
          /\ ~SearchPassCompletes =>
                agentState'.current_depth = agentState.current_depth]_vars

\* A run of depth 3 in which no sub-query was ever analysed and a signal
\* arrived has counted its passes up to the depth.
C35_Witness ==
    /\ node = "END"
    /\ ~run.analysed
    /\ shutdown.requested
    /\ agentState.depth = 3
    /\ agentState.current_depth = 3

\* ---------------------------------------------------------------- C36
\* The latest search pass has returned; searchPass.before is the state it
\* started from, searchPass.tasks and searchPass.pc its tasks and how each
\* ended.
PassRan == searchPass.phase # "idle"
PassReturned == PassRan /\ searchPass.phase = "generate_queries" /\ searchPass.passes >= 1
TaskOutcome(i) == Outcome(searchPass.env, searchPass.tasks[i])
Failing(i) == TaskOutcome(i) \in {"search_raises", "analysis_raises"}

\* C36: when the processing of a sub-query fails (its search, relevance
\* check or fetch raises, or its content analysis raises) the Search pass
\* does not raise; the pass that returns has processed every other
\* sub-query and merged its findings, and has incremented current_depth.
C36_SubQueryIsolation ==
    PassRan =>
        /\ (\E i \in 1..Len(searchPass.tasks) : searchPass.pc[i] = "failed")
               => searchPass.phase # "raised"
        /\ searchPass.phase = "raised" => searchPass.tasks = <<>>
        /\ PassReturned =>
              /\ searchPass.state.current_depth = searchPass.before.current_depth + 1
              /\ \A i \in 1..Len(searchPass.tasks) :
                    /\ searchPass.pc[i] \in {"done", "failed"}
                    /\ ~Failing(i) =>
                          /\ InList(Section(searchPass.tasks[i]), searchPass.state.findings)
                          /\ \E k \in 1..Len(searchPass.state.content_analysis) :
                                searchPass.state.content_analysis[k].subquery
                                    = searchPass.tasks[i]

\* A pass returned in which one sub-query failed in its search, another in
\* its analysis, and a third was analysed.
C36_Witness ==
    /\ PassReturned
    /\ \E i, j, k \in 1..Len(searchPass.tasks) :
          /\ TaskOutcome(i) = "search_raises" /\ searchPass.pc[i] = "failed"
          /\ TaskOutcome(j) = "analysis_raises" /\ searchPass.pc[j] = "done"
          /\ TaskOutcome(k) = "analysed" /\ searchPass.pc[k] = "done"

\* ---------------------------------------------------------------- C37
\* What a pass has appended to a list of the state so far.
PassAppended(field) ==
    SubSeq(searchPass.state[field], Len(searchPass.before[field]) + 1,
           Len(searchPass.state[field]))
\* The tasks of the pass whose outcome satisfies want, as a set of sub-queries.
TasksWith(want(_)) ==
    {searchPass.tasks[i] : i \in {j \in 1..Len(searchPass.tasks) : want(TaskOutcome(j))}}
IsAnalysed(outcome) == outcome = "analysed"
GotResults(outcome) == outcome # "search_raises"

\* C37: in every interleaving of the sub-queries of a pass the findings held
\* before the pass stay a prefix of the findings, and the pass appends the
\* same collection of findings sections, content_analysis entries and
\* sources, whatever the order: one section and one entry per analysed
\* sub-query, the results of every sub-query whose search returned.
C37_FanInAppendOnly ==
    PassRan =>
        /\ IsPrefix(searchPass.before.findings, searchPass.state.findings)
        /\ IsPrefix(searchPass.before.content_analysis, searchPass.state.content_analysis)
        /\ IsPrefix(searchPass.before.sources, searchPass.state.sources)
        /\ PassReturned =>
              /\ Range(PassAppended("findings")) = {Section(q) : q \in TasksWith(IsAnalysed)}
              /\ Len(PassAppended("findings")) = Cardinality(TasksWith(IsAnalysed))
              /\ {e.subquery : e \in Range(PassAppended("content_analysis"))}
                     = TasksWith(IsAnalysed)
              /\ Len(PassAppended("content_analysis")) = Cardinality(TasksWith(IsAnalysed))
              /\ {d.title : d \in Range(PassAppended("sources"))} = TasksWith(GotResults)
              /\ Len(PassAppended("sources")) = Cardinality(TasksWith(GotResults))

\* A second pass returned whose sections were appended in another order
\* than the order of its tasks.
C37_Witness ==
    /\ PassReturned
    /\ searchPass.passes = 2
    /\ searchPass.before.findings # <<>>
    /\ \E i, j \in 1..Len(searchPass.tasks) :
          /\ i < j
          /\ \E a, b \in 1..Len(searchPass.state.findings) :
                /\ a < b
                /\ searchPass.state.findings[a] = Section(searchPass.tasks[j])
                /\ searchPass.state.findings[b] = Section(searchPass.tasks[i])
                /\ a > Len(searchPass.before.findings)

\* ---------------------------------------------------------------- C38
\* C38: each Search pass dispatches exactly the sub-queries appended by the
\* GenerateQueries step just before it, each distinct one at most once, and
\* never a sub-query that an earlier pass dispatched.
C38_DispatchesTheNewBatchOnly ==
    PassRan =>
        \A k \in 1..Len(searchPass.dispatched) :
            /\ Range(searchPass.dispatched[k]) \subseteq Range(searchPass.generated[k])
            /\ (k < Len(searchPass.dispatched) \/ PassReturned) =>
                   Range(searchPass.dispatched[k]) = Range(searchPass.generated[k])
            /\ Len(searchPass.dispatched[k]) = Cardinality(Range(searchPass.dispatched[k]))
            /\ \A j \in 1..(k - 1) :
                   Range(searchPass.dispatched[j]) \cap Range(searchPass.dispatched[k]) = {}

\* What the code does keep: a pass dispatches the distinct sub-queries among
\* the last `breadth` of all sub-queries, each once; those always include
\* the ones just appended.
DispatchesTheLastBreadth ==
    PassRan =>
        /\ \A k \in 1..Len(searchPass.dispatched) :
              /\ Len(searchPass.dispatched[k]) = Cardinality(Range(searchPass.dispatched[k]))
              /\ (k < Len(searchPass.dispatched) \/ PassReturned) =>
                     Range(searchPass.generated[k]) \subseteq Range(searchPass.dispatched[k])
        /\ PassReturned =>
              Range(searchPass.dispatched[Len(searchPass.dispatched)])
                  = Range(TakeLast(searchPass.state.subqueries, searchPass.state.breadth))

\* ---------------------------------------------------------------- C39
\* url_to_id and id_to_url are inverse bijections and the three maps have
\* the ids 1..next_id-1 as keys.
RegistryMapsInverse ==
    /\ DOMAIN registry.id_to_url = 1..(registry.next_id - 1)
    /\ DOMAIN registry.citations = DOMAIN registry.id_to_url
    /\ \A id \in DOMAIN registry.id_to_url :
          /\ registry.id_to_url[id] \in DOMAIN registry.url_to_id
          /\ registry.url_to_id[registry.id_to_url[id]] = id
    /\ \A url \in DOMAIN registry.url_to_id :
          /\ registry.url_to_id[url] \in DOMAIN registry.id_to_url
          /\ registry.id_to_url[registry.url_to_id[url]] = url
\* The record of an id names that id and the URL registered under it.
RecordAgrees(id) ==
    /\ registry.citations[id].id = id
    /\ registry.citations[id].url = registry.id_to_url[id]

\* C39: after any sequence of register_citation, bulk_register_sources and
\* update_citation_metadata calls url_to_id and id_to_url are inverse
\* bijections, citations and id_to_url have the keys 1..next_id-1, and every
\* record of citations holds its own id and the URL of id_to_url.
C39_RegistryMapsConsistent ==
    /\ RegistryMapsInverse
    /\ \A id \in DOMAIN registry.citations : RecordAgrees(id)

\* What the code does keep: the maps and key sets under every call, and the
\* records under register_citation and bulk_register_sources and under an
\* update whose metadata names no id and no URL but the registered one.
RecordsAgreeUnlessOverwritten ==
    [][(/\ \A id \in DOMAIN registry.citations : RecordAgrees(id)
        /\ last'.op = "update_citation_metadata" =>
               LET metadata == last'.metadata IN
               /\ "id" \notin DOMAIN metadata
               /\ "url" \in DOMAIN metadata =>
                      /\ last'.id \in DOMAIN registry.id_to_url
                      /\ metadata.url = registry.id_to_url[last'.id])
       => \A id \in DOMAIN registry'.citations : RecordAgrees(id)']_vars

====
